---- MODULE Spec2Model ----
(***************************************************************************)
(* Request handlers of the financial-statement drafting site: one          *)
(* invocation of one handler variant, from the incoming event to the       *)
(* returned response, with every call it issues to the generative-model    *)
(* API recorded in order.                                                  *)
(***************************************************************************)
EXTENDS Integers, Sequences, FiniteSets, TLC

VARIABLES
    handler,      \* which handler variant serves the invocation
    pc,           \* position of the handler: init, loop, listing, files, ready, inflight, done, threw
    event,        \* the incoming event (httpMethod and the facts of its body)
    env,          \* process.env as read by the handler
    candidates,   \* candidate model list of the fallback variants
    idx,          \* 1-based position of the next candidate / next file
    lastErr,      \* lastErr of the candidate loops
    calls,        \* every external call issued so far, in order, with its outcome
    parts,        \* parts array of the file-based variants
    echo,         \* echo array of the file-based variants
    totalBytes,   \* totalBytes / totalApproxBytes
    timer,        \* the 22 s timer of the file-based variant: none, armed, fired, cleared
    bodyParsed,   \* whether the request body has been parsed
    responses,    \* the responses returned by the invocation, in order
    result,       \* the result under construction of a parser or a listing handler
    ifrsSummary,  \* module-level ifrsSummary of processUpload.js
    preload,      \* position of the startup preload: none, start, parsing, loaded, failed
    writes,       \* who assigned ifrsSummary, in order
    requests      \* the invocations of the processUpload handler the process is serving

vars == <<handler, pc, event, env, candidates, idx, lastErr, calls, parts, echo,
          totalBytes, timer, bodyParsed, responses, result,
          ifrsSummary, preload, writes, requests>>

----------------------------------------------------------------------------
(* Bounds of the model *)

MaxFiles == 2

\* data rows of a trial-balance sheet
MaxRows == 2

\* items of a filing history the registry returns
MaxItems == 2

\* columns of a sheet the column choice is run on
MaxCols == 6

----------------------------------------------------------------------------
(* Model names.  A name is the sequence of its "/"-separated segments, so  *)
(* "models/gemini-pro" is <<"models", "gemini-pro">>.                      *)

NoModel == <<>>

Lower(s) ==
    CASE s = "MODELS" -> "models"
      [] s = "PDF" -> "pdf"
      [] s = "PNG" -> "png"
      [] OTHER -> s

\* name.replace(/^models\//i, "")
normalizeModelName(name) ==
    IF Len(name) >= 2 /\ Lower(name[1]) = "models" THEN Tail(name) ELSE name

\* DEFAULT_MODELS of the two REST fallback variants
DEFAULT_MODELS ==
    << <<"gemini-1.5-flash-latest">>, <<"gemini-1.5-pro-latest">>, <<"gemini-pro">> >>

\* the literal candidates of the SDK fallback variant
SDK_MODELS ==
    << <<"gemini-1.5-flash-002">>, <<"gemini-1.5-pro-002">>,
       <<"gemini-1.5-flash">>, <<"gemini-1.5-pro">> >>

\* values of process.env.GEMINI_MODEL: unset, plain, prefixed, equal to a default
ModelOverrides ==
    { NoModel, <<"custom">>, <<"models", "custom">>, <<"MODELS", "gemini-pro">>,
      <<"gemini-1.5-flash">> }

\* [x, ...rest].filter(Boolean): an unset override is dropped
FilterBoolean(s) == SelectSeq(s, LAMBDA m : m # NoModel)

----------------------------------------------------------------------------
(* Outcomes of one call to the generative API, as the remote side decides  *)
(* them.  msg is the set of marker phrases the error text contains.        *)

Outcome(kind, status, msg) ==
    [kind |-> kind, status |-> status, msg |-> msg, models |-> <<>>]

Pending == Outcome("pending", 0, {})

GenOutcomes ==
    { Outcome("text", 200, {}),                          \* 2xx with a text part
      Outcome("empty", 200, {}),                         \* 2xx without any text
      Outcome("http", 404, {"not found"}),               \* model not found
      Outcome("http", 404, {}),                          \* bare 404
      Outcome("http", 400, {"not supported"}),           \* method not supported
      Outcome("http", 500, {"not found"}),               \* 5xx whose body says not found
      Outcome("http", 500, {}),                          \* server error
      Outcome("badjson", 200, {}),                       \* 2xx whose body is not JSON
      Outcome("network", 0, {}) }                        \* fetch rejected

AbortOutcome == Outcome("abort", 0, {})

Succeeded(out) == out.kind \in {"text", "empty"}

NoErr == [status |-> 0, msg |-> {}, name |-> ""]

\* The Error built from a failed call:
\*   new Error(`Gemini HTTP ${res.status}: ${txt}`); error.status = res.status
\* The message holds the status digits and the body text; a rejected fetch
\* carries neither.
ErrorOf(out) ==
    IF out.kind = "http"
    THEN [status |-> out.status,
          msg |-> out.msg \cup (IF out.status = 404 THEN {"404"} ELSE {}),
          name |-> "Error"]
    ELSE IF out.kind = "abort"
    THEN [status |-> 0, msg |-> {}, name |-> "AbortError"]
    ELSE [status |-> 0, msg |-> {}, name |-> "Error"]

\* textPart?.text || "No text generated."
TextOrPlaceholder(out, placeholder) ==
    IF out.kind = "text" THEN "draft" ELSE placeholder

----------------------------------------------------------------------------
(* Handler variants *)

RestHandlers == {"P2_Rest", "GS_Rest"}
FallbackHandlers == RestHandlers \cup {"P3_Sdk"}

\* candidates = [process.env.GEMINI_MODEL, ...defaults].filter(Boolean)
Candidates(h, override) ==
    CASE h = "P2_Rest" -> FilterBoolean(<<override>> \o DEFAULT_MODELS)
      [] h = "GS_Rest" ->
            FilterBoolean(<< IF override = NoModel THEN NoModel
                             ELSE normalizeModelName(override) >> \o DEFAULT_MODELS)
      [] OTHER -> FilterBoolean(<<override>> \o SDK_MODELS)

\* The catch block of the candidate loop: TRUE when the error makes the loop
\* go on to the next candidate.
\*   part_002:  /404/.test(String(err.status)) || /not found/i.test(msg)
\*   part_003:  /not found|404/i.test(msg) || /not supported/i.test(msg)
\*   generateStatements.js:  unconditional continue
TryNext(h, err) ==
    CASE h = "P2_Rest" -> err.status = 404 \/ "not found" \in err.msg
      [] h = "P3_Sdk" -> "not found" \in err.msg \/ "404" \in err.msg
                           \/ "not supported" \in err.msg
      [] OTHER -> TRUE

NoName == [base |-> "", ext |-> ""]

\* the inputs a dry run echoes: the framework, the company name, the
\* length of the notes and the list of the files received
DryRunEcho(framework, companyName, notes, files) ==
    [framework |-> framework, companyName |-> companyName, notesLength |-> Len(notes),
     files |-> files]
NoDebug == DryRunEcho("", "", <<>>, <<>>)

Resp(status, error) ==
    [status |-> status, error |-> error, model |-> NoModel, output |-> "",
     tried |-> <<>>, details |-> NoErr, modelsAvailable |-> <<>>,
     totalBytes |-> 0, file |-> NoName, accepted |-> FALSE, meta |-> FALSE,
     debug |-> NoDebug]

\* the body of a JSON request: kind is invalid (not JSON), null (the JSON
\* literal null) or object
TbBodies ==
    { [kind |-> k, priorText |-> p, tbParsed |-> t, files |-> <<>>] :
        k \in {"object"}, p \in BOOLEAN,
        t \in {"null", "empty", "current", "both"} }
    \cup { [kind |-> k, priorText |-> FALSE, tbParsed |-> "empty", files |-> <<>>] :
        k \in {"invalid", "null"} }

MissingRequired_PriorOnly(body) == ~body.priorText
\* !priorText || !tbParsed || !Object.keys(tbParsed).length
MissingRequired(body) ==
    \/ ~body.priorText
    \/ body.tbParsed \in {"null", "empty"}

\* !priorText || !tbParsed || !tbParsed.prior || !tbParsed.current
MissingRequiredBoth(body) ==
    \/ ~body.priorText
    \/ body.tbParsed # "both"

Respond(r) ==
    /\ responses' = Append(responses, r)
    /\ pc' = "done"

\* The synchronous prefix of the fallback variants: method check, key check,
\* candidate list, body parse, required-data check.
FallbackStart ==
    /\ pc = "init"
    /\ handler \in FallbackHandlers
    /\ IF event.httpMethod # "POST"
       THEN /\ Respond(Resp(405, "Method Not Allowed"))
            /\ UNCHANGED <<candidates, bodyParsed>>
       ELSE IF ~env.GEMINI_API_KEY
       THEN /\ Respond(Resp(500, "Missing GEMINI_API_KEY"))
            /\ UNCHANGED <<candidates, bodyParsed>>
       ELSE /\ candidates' = Candidates(handler, env.GEMINI_MODEL)
            /\ bodyParsed' = TRUE
            /\ IF event.body.kind = "null"
               THEN \* destructuring null throws; the outer catch answers
                    Respond(Resp(500, "Failed to generate"))
               ELSE IF event.body.kind = "invalid" \/ MissingRequired(event.body)
               THEN Respond(Resp(400, "Missing required data (priorText and tbParsed)."))
               ELSE \/ /\ pc' = "loop"
                       /\ UNCHANGED responses
                    \/ \* await getGemini(): the dynamic import rejects
                       /\ handler = "P3_Sdk"
                       /\ Respond(Resp(500, "Failed to generate"))
    /\ UNCHANGED <<ifrsSummary, preload, writes, requests,
                   result, handler, event, env, idx, lastErr, calls, parts, echo,
                   totalBytes, timer>>

\* the model identifier put in the request URL
SentModel(h, model) == IF h = "GS_Rest" THEN normalizeModelName(model) ELSE model

GenCall(model, out) == [api |-> "generateContent", model |-> model, result |-> out]
ListCall(out) == [api |-> "listModels", model |-> NoModel, result |-> out]

\* the placeholder a text-less success is replaced by
Placeholder(h) == IF h = "P3_Sdk" THEN "No output generated." ELSE "No text generated."

\* return { statusCode: 200, body: { output, model } }
SuccessResponse(h, model, out) ==
    [Resp(200, "") EXCEPT
        !.output = TextOrPlaceholder(out, Placeholder(h)),
        !.model = SentModel(h, model)]

\* return { statusCode: 500, body: { error, modelTried: model, details: msg } }
StopResponse(model, err) ==
    [Resp(500, "Failed to generate") EXCEPT !.model = model, !.details = err]

TriedList_OnlyDefaults(cands) == SubSeq(cands, Len(cands) - 2, Len(cands))

\* tried: candidates
TriedList(cands) == cands

\* the response after the loop ran past the last candidate
ExhaustedResponse(cands, err, available) ==
    [Resp(500, "Failed to generate") EXCEPT
        !.details = err, !.tried = TriedList(cands), !.modelsAvailable = available]

\* One iteration of the candidate loop: the call for candidates[idx] is
\* issued and settles.
Attempt ==
    /\ pc = "loop"
    /\ handler \in FallbackHandlers
    /\ idx <= Len(candidates)
    /\ \E out \in GenOutcomes :
        LET model == candidates[idx]
            call == GenCall(SentModel(handler, model), out)
            err == ErrorOf(out)
        IN  IF Succeeded(out)
            THEN /\ calls' = Append(calls, call)
                 /\ Respond(SuccessResponse(handler, model, out))
                 /\ UNCHANGED <<idx, lastErr>>
            ELSE IF ~TryNext(handler, err)
            THEN /\ calls' = Append(calls, call)
                 /\ Respond(StopResponse(model, err))
                 /\ UNCHANGED <<idx, lastErr>>
            ELSE /\ lastErr' = err
                 /\ idx' = idx + 1
                 /\ IF idx < Len(candidates)
                    THEN /\ calls' = Append(calls, call)
                         /\ UNCHANGED <<pc, responses>>
                    ELSE IF handler \in RestHandlers
                    THEN \* await listModelsREST(apiKey)
                         /\ calls' = calls \o <<call, ListCall(Pending)>>
                         /\ pc' = "listing"
                         /\ UNCHANGED responses
                    ELSE /\ calls' = Append(calls, call)
                         /\ Respond(ExhaustedResponse(candidates, err, <<>>))
    /\ UNCHANGED <<ifrsSummary, preload, writes, requests,
                   result, handler, event, env, candidates, parts, echo, totalBytes,
                   timer, bodyParsed>>

\* what the model-listing endpoint may answer: a list of entries, an HTTP
\* error, or no answer at all
ModelEntry(name, methods) == [name |-> name, methods |-> methods, isArray |-> TRUE]

\* an entry whose supportedGenerationMethods is set but is not an array
OpaqueEntry(name) == [name |-> name, methods |-> {}, isArray |-> FALSE]

Listings ==
    { <<>>,
      << ModelEntry(<<"models", "gemini-2.5-flash">>, {"generateContent"}) >>,
      << ModelEntry(<<"models", "embedding-001">>, {"embedContent"}),
         ModelEntry(<<"models", "gemini-2.0-flash">>, {"generateContent"}) >>,
      << ModelEntry(<<"models", "tuned-x">>, {"generateContent"}),
         ModelEntry(<<"models", "gemini-2.5-pro">>, {"generateContent"}) >>,
      << ModelEntry(NoModel, {"generateContent"}),
         ModelEntry(<<"models", "aqa">>, {"generateAnswer"}) >>,
      << OpaqueEntry(<<"models", "text-bison">>),
         ModelEntry(<<"models", "gemini-2.0-flash-lite">>, {"embedContent"}) >> }

ListOutcomes ==
    { [kind |-> "list", status |-> 200, msg |-> {}, models |-> l] : l \in Listings }
    \cup { Outcome("http", 403, {}), Outcome("network", 0, {}),
           Outcome("badjson", 200, {}) }

\* arr.map(m => m?.name || m?.model)
NamesOf(models) == [i \in 1..Len(models) |-> models[i].name]

\* .map(normalizeModelName)
NormalizeAll(names) == [i \in 1..Len(names) |-> normalizeModelName(names[i])]

\* .map(m => m.id)
IdsOf(models) == [i \in 1..Len(models) |-> models[i].id]

\* listModelsREST: the names of the listed models, [] on any failure
listModelsREST(h, out) ==
    IF out.kind # "list" THEN <<>>
    ELSE LET names == SelectSeq(NamesOf(out.models),
                                LAMBDA n : n # NoModel)
         IN  IF h = "GS_Rest" THEN NormalizeAll(names) ELSE names

\* The model listing issued after the loop settles; the aggregate error is
\* returned.
ListModelsSettles ==
    /\ pc = "listing"
    /\ handler \in RestHandlers
    /\ \E out \in ListOutcomes :
        /\ calls' = [calls EXCEPT ![Len(calls)] = ListCall(out)]
        /\ Respond(ExhaustedResponse(candidates, lastErr, listModelsREST(handler, out)))
    /\ UNCHANGED <<ifrsSummary, preload, writes, requests,
                   result, handler, event, env, candidates, idx, lastErr, parts, echo,
                   totalBytes, timer, bodyParsed>>

----------------------------------------------------------------------------
(* The list-then-pick variants of generateStatements: list the models of   *)
(* the key, pick one, generate once.                                       *)

ListPickHandlers == {"GS_ListA", "GS_ListB"}

\* const preferredOrder = [...]
preferredOrder(h) ==
    IF h = "GS_ListA"
    THEN << <<"gemini-2.5-flash">>, <<"gemini-2.5-pro">>, <<"gemini-2.0-flash">>,
            <<"gemini-2.0-flash-001">>, <<"gemini-2.5-flash-lite">>,
            <<"gemini-2.0-flash-lite">> >>
    ELSE << <<"gemini-1.5-flash-002">>, <<"gemini-1.5-pro-002">>,
            <<"gemini-1.5-flash-latest">>, <<"gemini-1.5-pro-latest">>,
            <<"gemini-1.5-flash">>, <<"gemini-1.5-pro">>, <<"gemini-pro">>,
            <<"gemini-1.0-pro">> >>

Range(s) == { s[i] : i \in 1..Len(s) }

\* arr.map(m => ({ id: normalize(m.name), raw: m })).filter(m => m.id)
listModels(out) ==
    SelectSeq([i \in 1..Len(out.models) |->
                  [id |-> normalizeModelName(out.models[i].name), raw |-> out.models[i]]],
              LAMBDA m : m.id # NoModel)

\* Array.isArray(methods) ? methods.includes("generateContent") : true
supportsGenerate(m) == IF m.raw.isArray THEN "generateContent" \in m.raw.methods ELSE TRUE

\* lm.models.filter(supportsGenerate).map(m => m.id)
usable(models) == IdsOf(SelectSeq(models, supportsGenerate))

\* [...preferredOrder.filter(id => usable.includes(id)),
\*  ...usable.filter(id => !preferredOrder.includes(id))]
sorted(h, us) ==
    SelectSeq(preferredOrder(h), LAMBDA id : id \in Range(us))
    \o SelectSeq(us, LAMBDA id : id \notin Range(preferredOrder(h)))

ListPickStart ==
    /\ pc = "init"
    /\ handler \in ListPickHandlers
    /\ IF event.httpMethod # "POST"
       THEN /\ Respond(Resp(405, "Method Not Allowed"))
            /\ UNCHANGED <<bodyParsed, calls>>
       ELSE IF ~env.GEMINI_API_KEY
       THEN /\ Respond(Resp(500, "Missing GEMINI_API_KEY"))
            /\ UNCHANGED <<bodyParsed, calls>>
       ELSE /\ bodyParsed' = TRUE
            /\ IF event.body.kind = "invalid" /\ handler = "GS_ListA"
               THEN /\ Respond(Resp(400, "Invalid JSON request body"))
                    /\ UNCHANGED calls
               ELSE IF event.body.kind = "null"
               THEN /\ Respond(Resp(500, "Failed to generate"))
                    /\ UNCHANGED calls
               ELSE IF \/ event.body.kind = "invalid"
                       \/ handler = "GS_ListA" /\ MissingRequiredBoth(event.body)
                       \/ handler = "GS_ListB" /\ MissingRequired(event.body)
               THEN /\ Respond(Resp(400, "Missing required data (priorText and tbParsed)."))
                    /\ UNCHANGED calls
               ELSE \* await listModels(apiKey)
                    /\ calls' = Append(calls, ListCall(Pending))
                    /\ pc' = "listing"
                    /\ UNCHANGED responses
    /\ UNCHANGED <<ifrsSummary, preload, writes, requests,
                   result, handler, event, env, candidates, idx, lastErr, parts, echo,
                   totalBytes, timer>>

\* The listing settles: an unusable listing is answered, otherwise the
\* picked model is called.
ListPickListed ==
    /\ pc = "listing"
    /\ handler \in ListPickHandlers
    /\ \E out \in ListOutcomes :
        LET all == listModels(out)
            us == usable(all)
        IN  /\ IF out.kind = "network" \/ (handler = "GS_ListB" /\ out.kind # "list")
               THEN \* the rejection reaches the outer catch
                    /\ calls' = [calls EXCEPT ![Len(calls)] = ListCall(out)]
                    /\ Respond(Resp(500, "Failed to generate"))
                    /\ UNCHANGED candidates
               ELSE IF out.kind # "list"
               THEN /\ calls' = [calls EXCEPT ![Len(calls)] = ListCall(out)]
                    /\ Respond(Resp(502, "Failed to list models"))
                    /\ UNCHANGED candidates
               ELSE IF us = <<>>
               THEN /\ calls' = [calls EXCEPT ![Len(calls)] = ListCall(out)]
                    /\ Respond([Resp(500, "No usable models") EXCEPT
                                   !.modelsAvailable = IdsOf(all)])
                    /\ UNCHANGED candidates
               ELSE /\ candidates' = sorted(handler, us)
                    /\ calls' = [calls EXCEPT ![Len(calls)] = ListCall(out)]
                                  \o << GenCall(sorted(handler, us)[1], Pending) >>
                    /\ pc' = "inflight"
                    /\ UNCHANGED responses
    /\ UNCHANGED <<ifrsSummary, preload, writes, requests,
                   result, handler, event, env, idx, lastErr, parts, echo, totalBytes,
                   timer, bodyParsed>>

\* generateWithModel settles
ListPickGenerated ==
    /\ pc = "inflight"
    /\ handler \in ListPickHandlers
    /\ \E out \in GenOutcomes :
        LET modelToUse == candidates[1] IN
        /\ calls' = [calls EXCEPT ![Len(calls)] = GenCall(modelToUse, out)]
        /\ IF Succeeded(out)
           THEN Respond([Resp(200, "") EXCEPT
                            !.output = TextOrPlaceholder(out, "No text generated."),
                            !.model = modelToUse])
           ELSE IF handler = "GS_ListA" /\ out.kind \in {"http", "badjson"}
           THEN Respond([Resp(502, "Gemini generation failed") EXCEPT
                            !.model = modelToUse, !.details = ErrorOf(out)])
           ELSE Respond([Resp(500, "Failed to generate") EXCEPT !.details = ErrorOf(out)])
    /\ UNCHANGED <<ifrsSummary, preload, writes, requests,
                   result, handler, event, env, candidates, idx, lastErr, parts, echo,
                   totalBytes, timer, bodyParsed>>

----------------------------------------------------------------------------
(* The file-based variants of generateStatements.                          *)

FileHandlers == {"GS_Files", "P3_Files"}

PDF == "application/pdf"
IMG == {"image/png", "image/jpeg"}
XLS == {"application/vnd.ms-excel",
        "application/vnd.openxmlformats-officedocument.spreadsheetml.sheet"}
TXT == {"text/plain", "text/csv", "application/csv"}

\* the accepted types of each variant
Accepted(h) == IF h = "GS_Files" THEN {PDF} \cup IMG \cup XLS \cup TXT
               ELSE {PDF} \cup IMG \cup XLS

\* guessMime(name): by the lower-cased extension of the name
guessMime(h, name) ==
    LET n == Lower(name.ext) IN
    CASE n = "pdf" -> PDF
      [] n = "png" -> "image/png"
      [] n \in {"jpg", "jpeg"} -> "image/jpeg"
      [] n = "xls" -> "application/vnd.ms-excel"
      [] n = "xlsx" -> "application/vnd.openxmlformats-officedocument.spreadsheetml.sheet"
      [] n = "csv" /\ h = "GS_Files" -> "text/csv"
      [] n = "txt" /\ h = "GS_Files" -> "text/plain"
      [] OTHER -> ""

\* f.name || "unnamed"
NameOf(f) == IF f.name = NoName THEN [base |-> "unnamed", ext |-> ""] ELSE f.name

\* f.mimeType || guessMime(name)
MimeOf(h, f) == IF f.mimeType # "" THEN f.mimeType ELSE guessMime(h, NameOf(f))

\* The base64 field of a file: whether it is a string, the length of a
\* leading data-URL prefix, the number of whitespace characters and the
\* number of payload characters.
B64(str, prefix, ws, len) == [str |-> str, prefix |-> prefix, ws |-> ws, len |-> len]

\* length of the string the size is computed from:
\*   generateStatements.js strips the data-URL prefix and the whitespace,
\*   part_003 strips the whitespace only
StrippedLen(h, b) ==
    IF ~b.str THEN 0
    ELSE IF h = "GS_Files" THEN b.len ELSE b.prefix + b.len

\* if (!base64) return 400: before the stripping in generateStatements.js,
\* after it in part_003
MissingBase64(h, b) ==
    IF ~b.str THEN TRUE
    ELSE IF h = "GS_Files" THEN b.prefix + b.ws + b.len = 0
    ELSE b.prefix + b.len = 0

\* Math.round((base64.length * 3) / 4)
ApproxBytes(len) == (3 * len + 2) \div 4

\* 10 * 1024 * 1024
MaxUploadBytes == 10485760

OverCeiling_Inclusive(total) == total >= MaxUploadBytes

\* totalBytes > 10 * 1024 * 1024
OverCeiling(total) == total > MaxUploadBytes

FileRec(base, ext, mime, b64, content) ==
    [isNull |-> FALSE, name |-> [base |-> base, ext |-> ext], mimeType |-> mime,
     base64 |-> b64, content |-> content]

NullFile == [isNull |-> TRUE, name |-> NoName, mimeType |-> "",
             base64 |-> B64(FALSE, 0, 0, 0), content |-> "ok"]

Small == B64(TRUE, 0, 0, 8)

\* the uploaded files the model draws from; content is what the decoded
\* bytes hold (ok, nosheets, empty, corrupt)
FileUniverse ==
    { FileRec("prior", "pdf", PDF, Small, "ok"),
      FileRec("scan", "PNG", "", Small, "ok"),
      FileRec("tb", "xlsx", "application/vnd.openxmlformats-officedocument.spreadsheetml.sheet",
              Small, "ok"),
      FileRec("old", "xls", "application/vnd.ms-excel", Small, "empty"),
      FileRec("bad", "xlsx", "", Small, "corrupt"),
      FileRec("none", "xls", "", Small, "nosheets"),
      FileRec("tb", "csv", "", Small, "ok"),
      FileRec("blank", "txt", "text/plain", Small, "empty"),
      FileRec("memo", "txt", "text/plain", Small, "ok"),
      FileRec("x", "zip", "application/zip", Small, "ok"),
      FileRec("", "", "", Small, "ok"),
      FileRec("prior", "pdf", PDF, B64(FALSE, 0, 0, 0), "ok"),
      FileRec("y", "zip", "application/zip", B64(TRUE, 0, 0, 0), "ok"),
      FileRec("huge", "pdf", PDF, B64(TRUE, 0, 0, 13981014), "ok"),
      FileRec("edge", "pdf", PDF, B64(TRUE, 0, 0, 13981013), "ok"),
      FileRec("half", "pdf", PDF, B64(TRUE, 0, 0, 8000000), "ok"),
      FileRec("z", "zip", "application/zip", B64(TRUE, 0, 0, 8000000), "ok"),
      FileRec("url", "pdf", PDF, B64(TRUE, 28, 2, 8), "ok"),
      FileRec("odd", "png", "image/png", B64(TRUE, 0, 0, 6), "ok"),
      NullFile }

FileLists == UNION { [1..n -> FileUniverse] : n \in 0..MaxFiles }

\* a field the body does not have
Absent == "undefined"

\* the framework, company name and notes of a body: none given, or all
\* three; the notes are the sequence of their characters
TextInputs ==
    { [framework |-> Absent, companyName |-> Absent, notes |-> <<>>],
      [framework |-> "US GAAP", companyName |-> "Acme", notes |-> <<"n", "b">>] }

\* const { framework = "IFRS", companyName = "", ... } = body
Default(v, d) == IF v = Absent THEN d ELSE v

FileBody(kind, files, t) ==
    [kind |-> kind, priorText |-> FALSE, tbParsed |-> "empty", files |-> files,
     framework |-> t.framework, companyName |-> t.companyName, notes |-> t.notes]

FileBodies ==
    { FileBody("object", fs, t) : fs \in FileLists, t \in TextInputs }
    \cup { FileBody(k, <<>>, [framework |-> Absent, companyName |-> Absent, notes |-> <<>>]) :
             k \in {"invalid", "null", "filesNotArray"} }

PromptPart == [kind |-> "prompt", mimeType |-> "", name |-> NoName, len |-> 0]
InlinePart_Unnamed(mime, name, len) ==
    [kind |-> "inlineData", mimeType |-> mime, name |-> NoName, len |-> len]

\* parts.push({ inlineData: { mimeType, data: base64 } })
InlinePart(mime, name, len) == [kind |-> "inlineData", mimeType |-> mime, name |-> name, len |-> len]
TextPart(name) == [kind |-> "text", mimeType |-> "", name |-> name, len |-> 0]
EchoRec(name, mime, approx) == [name |-> name, mime |-> mime, approx |-> approx]

FilesStart ==
    /\ pc = "init"
    /\ handler \in FileHandlers
    /\ IF event.httpMethod # "POST"
       THEN /\ Respond(Resp(405, "Method Not Allowed"))
            /\ UNCHANGED <<bodyParsed, parts>>
       ELSE /\ bodyParsed' = TRUE
            /\ IF event.body.kind = "invalid"
               THEN /\ Respond(Resp(400, "Invalid JSON"))
                    /\ UNCHANGED parts
               ELSE IF event.body.kind = "null"
               THEN \* destructuring null throws: part_003 answers from its
                    \* outer catch, generateStatements.js has none here
                    /\ IF handler = "P3_Files"
                       THEN Respond(Resp(500, "Unhandled server error"))
                       ELSE pc' = "threw" /\ UNCHANGED responses
                    /\ UNCHANGED parts
               ELSE IF event.body.kind = "filesNotArray" \/ event.body.files = <<>>
               THEN /\ Respond(Resp(400, "Please include at least one file"))
                    /\ UNCHANGED parts
               ELSE /\ parts' = <<PromptPart>>
                    /\ pc' = "files"
                    /\ UNCHANGED responses
    /\ UNCHANGED <<ifrsSummary, preload, writes, requests,
                   result, handler, event, env, candidates, idx, lastErr, calls, echo,
                   totalBytes, timer>>

\* the 400 of the size guard
TooLargeResponse(name, total) ==
    [Resp(400, "Payload too large") EXCEPT !.totalBytes = total]

UnsupportedResponse_Unnamed(name) == Resp(400, "Unsupported type")

\* the 400 of the final else of the dispatch
UnsupportedResponse(name) ==
    [Resp(400, "Unsupported type") EXCEPT !.file = name, !.accepted = TRUE]

\* One iteration of for (const f of files).
FileStep ==
    /\ pc = "files"
    /\ handler \in FileHandlers
    /\ idx <= Len(event.body.files)
    /\ LET f == event.body.files[idx]
           name == NameOf(f)
           mime == MimeOf(handler, f)
           len == StrippedLen(handler, f.base64)
           approx == ApproxBytes(len)
           total == totalBytes + approx
       IN  IF f.isNull
           THEN /\ idx' = idx + 1
                /\ UNCHANGED <<pc, responses, parts, echo, totalBytes>>
           ELSE IF MissingBase64(handler, f.base64)
           THEN /\ Respond([Resp(400, "Missing base64") EXCEPT !.file = name])
                /\ UNCHANGED <<idx, parts, echo, totalBytes>>
           ELSE /\ totalBytes' = total
                /\ IF OverCeiling(total)
                   THEN /\ Respond(TooLargeResponse(name, total))
                        /\ UNCHANGED <<idx, parts, echo>>
                   ELSE IF mime = PDF \/ mime \in IMG
                   THEN /\ parts' = Append(parts, InlinePart(mime, name, len))
                        /\ echo' = Append(echo, EchoRec(name, mime, approx))
                        /\ idx' = idx + 1
                        /\ UNCHANGED <<pc, responses>>
                   ELSE IF mime \in XLS
                   THEN IF f.content = "ok"
                        THEN /\ parts' = Append(parts, TextPart(name))
                             /\ echo' = Append(echo, EchoRec(name, mime, approx))
                             /\ idx' = idx + 1
                             /\ UNCHANGED <<pc, responses>>
                        ELSE /\ Respond([Resp(400,
                                    CASE f.content = "nosheets" -> "No sheets found"
                                      [] f.content = "empty" -> "Empty sheet"
                                      [] OTHER -> IF handler = "GS_Files"
                                                  THEN "File handling failed"
                                                  ELSE "Failed to parse Excel")
                                  EXCEPT !.file = IF f.content = "corrupt" /\ handler = "GS_Files"
                                                  THEN NoName ELSE name])
                             /\ UNCHANGED <<idx, parts, echo>>
                   ELSE IF mime \in TXT /\ handler = "GS_Files"
                   THEN IF f.content = "empty"
                        THEN /\ Respond([Resp(400, "Empty text") EXCEPT !.file = name])
                             /\ UNCHANGED <<idx, parts, echo>>
                        ELSE /\ parts' = Append(parts, TextPart(name))
                             /\ echo' = Append(echo, EchoRec(name, mime, approx))
                             /\ idx' = idx + 1
                             /\ UNCHANGED <<pc, responses>>
                   ELSE /\ Respond(UnsupportedResponse(name))
                        /\ UNCHANGED <<idx, parts, echo>>
    /\ UNCHANGED <<ifrsSummary, preload, writes, requests,
                   result, handler, event, env, candidates, lastErr, calls, timer, bodyParsed>>

\* process.env.GEMINI_MODEL || default
ModelName(h, override) ==
    IF override # NoModel THEN override
    ELSE IF h = "GS_Files" THEN <<"models", "gemini-2.5-flash">>
    ELSE <<"gemini-2.5-flash">>

\* what the handler does after the loop: the dry-run test comes before the
\* key check
AfterLoop_KeyFirst(en) ==
    IF ~en.GEMINI_API_KEY THEN "nokey" ELSE IF en.DRY_RUN THEN "echo" ELSE "generate"
AfterLoop(en) ==
    IF en.DRY_RUN THEN "echo" ELSE IF ~en.GEMINI_API_KEY THEN "nokey" ELSE "generate"

\* the response of a dry run
DryRunResponse(body, files) ==
    [Resp(200, "") EXCEPT !.output = "DRY_RUN active (no AI call).",
                          !.model = <<"DRY_RUN">>,
                          !.debug = DryRunEcho(Default(body.framework, "IFRS"),
                                               Default(body.companyName, ""),
                                               body.notes, files)]

\* After the loop: the dry-run echo, the key check, then the timer is armed
\* and the generation call issued.
FilesDone ==
    /\ pc = "files"
    /\ handler \in FileHandlers
    /\ idx > Len(event.body.files)
    /\ IF AfterLoop(env) = "echo"
       THEN /\ Respond(DryRunResponse(event.body, echo))
            /\ UNCHANGED <<calls, timer>>
       ELSE IF AfterLoop(env) = "nokey"
       THEN /\ Respond(Resp(500, "Missing GEMINI_API_KEY"))
            /\ UNCHANGED <<calls, timer>>
       ELSE /\ timer' = IF handler = "GS_Files" THEN "armed" ELSE timer
            /\ calls' = Append(calls, GenCall(ModelName(handler, env.GEMINI_MODEL), Pending))
            /\ pc' = "inflight"
            /\ UNCHANGED responses
    /\ UNCHANGED <<ifrsSummary, preload, writes, requests,
                   result, handler, event, env, candidates, idx, lastErr, parts, echo,
                   totalBytes, bodyParsed>>

\* setTimeout(() => abort.abort(), 22_000) runs while the call is in flight
TimerFires ==
    /\ pc = "inflight"
    /\ timer = "armed"
    /\ timer' = "fired"
    /\ UNCHANGED <<ifrsSummary, preload, writes, requests,
                   result, handler, pc, event, env, candidates, idx, lastErr, calls, parts,
                   echo, totalBytes, bodyParsed, responses>>

CatchResponse_NoAbortCheck(err) ==
    [Resp(500, "Gemini request failed") EXCEPT !.details = err]

\* the catch block of the generation call in generateStatements.js
\*   if (e.name === "AbortError") 504 else 500
CatchResponse(err) ==
    IF err.name = "AbortError"
    THEN Resp(504, "Timeout: Gemini did not respond in time")
    ELSE [Resp(500, "Gemini request failed") EXCEPT !.details = err]

\* if (!text) 502 else 200
TextResponse(h, model, out) ==
    IF out.kind = "empty"
    THEN [Resp(502, "No text generated by Gemini") EXCEPT
             !.model = model, !.meta = (h = "GS_Files")]
    ELSE [Resp(200, "") EXCEPT !.output = "draft", !.model = model]

\* clearTimeout(t): cancels a timer that has not fired yet
clearTimeout(t) == IF t = "armed" THEN "cleared" ELSE t

\* The generation call settles: with an outcome of the remote side while the
\* signal is not aborted, with the abort once it is.
FilesGenerated ==
    /\ pc = "inflight"
    /\ handler \in FileHandlers
    /\ \E out \in (IF timer = "fired" THEN {AbortOutcome} ELSE GenOutcomes) :
        LET model == ModelName(handler, env.GEMINI_MODEL) IN
        /\ calls' = [calls EXCEPT ![Len(calls)] = GenCall(model, out)]
        /\ timer' = clearTimeout(timer)
        /\ IF Succeeded(out)
           THEN Respond(TextResponse(handler, model, out))
           ELSE IF handler = "GS_Files"
           THEN Respond(CatchResponse(ErrorOf(out)))
           ELSE Respond([Resp(500, "Gemini request failed") EXCEPT !.details = ErrorOf(out)])
    /\ UNCHANGED <<ifrsSummary, preload, writes, requests,
                   result, handler, event, env, candidates, idx, lastErr, parts, echo,
                   totalBytes, bodyParsed>>

----------------------------------------------------------------------------
(* The upload handlers: parseTrialBalances, readTrialBalances,             *)
(* extractPriorPdf and processUpload, each with its variants.  Their event *)
(* carries the facts the handler branches on:                              *)
(*   contentType      json, urlencoded, multipart (with a boundary), other *)
(*   isBase64Encoded  the flag of the event                                *)
(*   bodyOk           the body parses as its content type says             *)
(*   input            what the body holds: none, file (uploaded files or   *)
(*                    base64 data), url (links to fetch)                   *)
(*   docOk            the document parser accepts the bytes                *)
(*   hasText          the extracted text is not blank                      *)

TbHandlers == {"PTB_Main", "P4_PTB", "P5_PTB", "P6_PTB", "RTB"}
PdfHandlers == {"EPP_Main", "P11_EPP_A", "P11_EPP_B", "P11_EPP_C", "P12_EPP"}
AiUploadHandlers == {"PU_Gemini", "PU_OpenAI", "P7_PU", "P8_PU", "P9_PU", "P10_PU"}
UploadHandlers == TbHandlers \cup PdfHandlers \cup AiUploadHandlers

\* if (event.httpMethod !== "POST") return 405: present in every upload
\* handler but the parseTrialBalances variant of part_006
ChecksMethod(h) == h # "P6_PTB"

Result(resp, parsed, cs) == [resp |-> resp, parsed |-> parsed, calls |-> cs]

ExtCall(api, model, kind) == [api |-> api, model |-> model, result |-> Outcome(kind, 0, {})]

\* multiparty: form.parse rejects what is not a well-formed multipart body
MultipartyFails(ev) == ev.contentType # "multipart" \/ ~ev.bodyOk

\* the error of the catch block of each trial-balance variant
TbCaught(h) ==
    CASE h = "RTB" -> "TB read failed"
      [] h \in {"PTB_Main", "P4_PTB"} -> "Failed to parse TBs"
      [] OTHER -> "Failed to parse Excel"

\* parseTrialBalances variants and readTrialBalances, after the method check
TbResult(h, ev) ==
    IF h \in {"P4_PTB", "RTB"}
    THEN IF MultipartyFails(ev) THEN Result(Resp(500, TbCaught(h)), TRUE, <<>>)
         ELSE IF ev.input # "file"
         THEN Result(Resp(400, "Both tbPrior and tbCurrent are required"), TRUE, <<>>)
         ELSE IF ~ev.docOk THEN Result(Resp(500, TbCaught(h)), TRUE, <<>>)
         ELSE Result(Resp(200, ""), TRUE, <<>>)
    ELSE IF ev.contentType # "multipart"
         THEN Result(Resp(400, "Missing multipart boundary"), FALSE, <<>>)
         ELSE IF ~ev.bodyOk
         THEN Result(Resp(400, IF h = "PTB_Main" THEN "No multipart parts found"
                               ELSE "Both tbPrior and tbCurrent required"), TRUE, <<>>)
         ELSE IF ev.input # "file"
         THEN Result(Resp(400, "Both tbPrior and tbCurrent required"), TRUE, <<>>)
         ELSE IF ~ev.docOk THEN Result(Resp(500, TbCaught(h)), TRUE, <<>>)
         ELSE Result(Resp(200, ""), TRUE, <<>>)

\* extractPriorPdf variants, after the method check
PdfResult(h, ev) ==
    CASE h = "EPP_Main" ->
            IF ev.input # "file"
            THEN Result(Resp(400, IF ev.contentType = "multipart" /\ ev.bodyOk
                                  THEN "No PDF file found in multipart body."
                                  ELSE "Expected a base64-encoded PDF body"), TRUE, <<>>)
            ELSE IF ~ev.docOk THEN Result(Resp(500, "Failed to extract text from PDF"), TRUE, <<>>)
            ELSE Result(Resp(200, ""), TRUE, <<>>)
      [] h \in {"P11_EPP_A", "P12_EPP"} ->
            IF ev.contentType = "json" /\ ~ev.bodyOk
            THEN Result(Resp(400, "Invalid JSON body"), TRUE, <<>>)
            ELSE IF ev.contentType # "json" /\ MultipartyFails(ev)
            THEN Result(Resp(400, "Failed to parse multipart form data"), TRUE, <<>>)
            ELSE IF ev.input # "file"
            THEN Result(Resp(400, "Expected a base64-encoded PDF"), TRUE, <<>>)
            ELSE IF ~ev.docOk THEN Result(Resp(500, "Extraction failed"), TRUE, <<>>)
            ELSE Result(Resp(200, ""), TRUE, <<>>)
      [] h = "P11_EPP_B" ->
            IF MultipartyFails(ev) THEN Result(Resp(500, "Failed to parse PDF"), TRUE, <<>>)
            ELSE IF ev.input # "file"
            THEN Result(Resp(400, "No priorPdf file uploaded"), TRUE, <<>>)
            ELSE IF ~ev.docOk THEN Result(Resp(500, "Failed to parse PDF"), TRUE, <<>>)
            ELSE Result(Resp(200, ""), TRUE, <<>>)
      [] OTHER ->
            IF ~ev.isBase64Encoded
            THEN Result(Resp(400, "Expected Base64-encoded PDF"), FALSE, <<>>)
            ELSE IF ev.input # "file" \/ ~ev.docOk
            THEN Result(Resp(500, "Failed to extract text from PDF"), TRUE, <<>>)
            ELSE Result(Resp(200, ""), TRUE, <<>>)

\* the answer of processUpload.js to a document without text
EmptyTextStatus == 422

\* processUpload.js, first handler: the text of one PDF is sent to Gemini
PuGeminiResult(ev, en, fetchOk, aiOk) ==
    LET fetch == ExtCall("fetch", NoModel, IF fetchOk THEN "text" ELSE "network")
        ai == ExtCall("generateContent", <<"gemini-pro">>, IF aiOk THEN "text" ELSE "network")
        failed == Resp(500, "Processing failed")
        fetched == IF ev.input = "url" THEN <<fetch>> ELSE <<>>
    IN  IF ev.contentType = "other"
        THEN Result(Resp(400, "Unsupported content-type"), FALSE, <<>>)
        ELSE IF ev.contentType = "urlencoded" /\ ev.input # "url"
        THEN Result(Resp(400, "pdfUrl is required"), TRUE, <<>>)
        ELSE IF ~ev.bodyOk /\ ev.contentType # "urlencoded"
        THEN Result(failed, TRUE, <<>>)
        ELSE IF ev.contentType = "json" /\ ev.input # "url"
        THEN Result(Resp(400, "pdfUrl is required"), TRUE, <<>>)
        ELSE IF ev.input = "none"
        THEN Result(Resp(400, "No file uploaded and no pdfUrl provided"), TRUE, <<>>)
        ELSE IF ev.input = "url" /\ ~fetchOk THEN Result(failed, TRUE, fetched)
        ELSE IF ~ev.docOk THEN Result(failed, TRUE, fetched)
        ELSE IF ~ev.hasText
        THEN Result(Resp(EmptyTextStatus, "Could not extract text from the PDF"), TRUE, fetched)
        ELSE IF ~en.GEMINI_API_KEY
        THEN Result(Resp(500, "Missing GEMINI_API_KEY"), TRUE, fetched)
        ELSE IF ~aiOk THEN Result(failed, TRUE, Append(fetched, ai))
        ELSE Result([Resp(200, "") EXCEPT !.output = "draft"], TRUE, Append(fetched, ai))

\* the processUpload variants that send registry filings to OpenAI
PuOpenAiResult(h, ev, en, fetchOk, aiOk) ==
    LET fetch == ExtCall("fetch", NoModel, IF fetchOk THEN "text" ELSE "network")
        ai == ExtCall("openai", <<"gpt-4o-mini">>, IF aiOk THEN "text" ELSE "network")
        failed == Resp(500, "Processing failed")
    IN  CASE h = "P8_PU" ->
                IF MultipartyFails(ev) \/ ev.input # "file" \/ ~ev.docOk
                THEN Result(failed, TRUE, <<>>)
                ELSE IF ~en.OPENAI_API_KEY \/ ~aiOk
                THEN Result(failed, TRUE, IF en.OPENAI_API_KEY THEN <<ai>> ELSE <<>>)
                ELSE Result([Resp(200, "") EXCEPT !.output = "draft"], TRUE, <<ai>>)
          [] h = "P9_PU" ->
                LET fetched == IF ev.input = "url" THEN <<fetch>> ELSE <<>> IN
                IF ~aiOk THEN Result(failed, TRUE, Append(fetched, ai))
                ELSE Result([Resp(200, "") EXCEPT !.output = "draft"], TRUE, Append(fetched, ai))
          [] OTHER ->
                IF MultipartyFails(ev) THEN Result(failed, TRUE, <<>>)
                ELSE IF ev.input # "url"
                THEN Result(Resp(400, "No filings selected"), TRUE, <<>>)
                ELSE IF ~en.COMPANIES_HOUSE_API_KEY
                THEN Result(Resp(500, "Missing Companies House API key"), TRUE, <<>>)
                ELSE IF ~fetchOk \/ ~ev.docOk
                THEN Result(Resp(500, "No text could be extracted from filings"), TRUE, <<fetch>>)
                ELSE IF ~en.OPENAI_API_KEY
                THEN IF h = "PU_OpenAI"
                     THEN Result([Resp(200, "") EXCEPT !.output = "Debug Mode: No AI key."],
                                 TRUE, <<fetch>>)
                     ELSE Result(failed, TRUE, <<fetch>>)
                ELSE IF ~aiOk THEN Result(failed, TRUE, <<fetch, ai>>)
                ELSE Result([Resp(200, "") EXCEPT !.output = "draft"], TRUE, <<fetch, ai>>)

\* the whole of one upload handler
UploadResult(h, ev, en, fetchOk, aiOk) ==
    IF ChecksMethod(h) /\ ev.httpMethod # "POST"
    THEN Result(Resp(405, "Method Not Allowed"), FALSE, <<>>)
    ELSE CASE h \in TbHandlers -> TbResult(h, ev)
           [] h \in PdfHandlers -> PdfResult(h, ev)
           [] h = "PU_Gemini" -> PuGeminiResult(ev, en, fetchOk, aiOk)
           [] OTHER -> PuOpenAiResult(h, ev, en, fetchOk, aiOk)

UploadHandler ==
    /\ pc = "init"
    /\ handler \in UploadHandlers
    /\ \E fetchOk \in BOOLEAN, aiOk \in BOOLEAN :
        LET r == UploadResult(handler, event, env, fetchOk, aiOk) IN
        /\ Respond(r.resp)
        /\ bodyParsed' = r.parsed
        /\ calls' = r.calls
    /\ UNCHANGED <<ifrsSummary, preload, writes, requests,
                   result, handler, event, env, candidates, idx, lastErr, parts, echo,
                   totalBytes, timer>>

UploadEvents ==
    { [httpMethod |-> m, contentType |-> c, isBase64Encoded |-> e, bodyOk |-> b,
       input |-> i, docOk |-> d, hasText |-> t] :
        m \in {"POST", "GET"}, c \in {"json", "urlencoded", "multipart", "other"},
        e \in BOOLEAN, b \in BOOLEAN, i \in {"none", "file", "url"},
        d \in BOOLEAN, t \in BOOLEAN }

----------------------------------------------------------------------------
(* The trial-balance extractors: parseCSV and parseXLSX of                 *)
(* readTrialBalances.js and toKeyValue of parseTrialBalances.js.  A sheet   *)
(* is its rows, the first one the header; a row is its cells; a string is  *)
(* the sequence of its characters.                                         *)

NumCell(v) == [t |-> "number", v |-> v, s |-> <<>>]
StrCell(s) == [t |-> "string", v |-> 0, s |-> s]
NoCell == [t |-> "undefined", v |-> 0, s |-> <<>>]

\* row[c] with a 0-based column: undefined past the end of the row
CellAt(row, c) == IF c + 1 \in 1..Len(row) THEN row[c + 1] ELSE NoCell

\* a JS number: NaN or a value
NaN == [nan |-> TRUE, v |-> 0]
Num(v) == [nan |-> FALSE, v |-> v]

RECURSIVE TrimLeft(_)
TrimLeft(s) == IF s # <<>> /\ Head(s) = " " THEN TrimLeft(Tail(s)) ELSE s

RECURSIVE TrimRight(_)
TrimRight(s) ==
    IF s # <<>> /\ s[Len(s)] = " " THEN TrimRight(SubSeq(s, 1, Len(s) - 1)) ELSE s

\* String.prototype.trim
Trim(s) == TrimRight(TrimLeft(s))

\* .replace(/[, ]/g, "")
StripSeparators(s) == SelectSeq(s, LAMBDA c : c \notin {",", " "})

Digit == {"0", "1", "2", "3", "4", "5", "6", "7", "8", "9"}
DigitVal(c) == CHOOSE n \in 0..9 : <<"0", "1", "2", "3", "4", "5", "6", "7", "8", "9">>[n + 1] = c

RECURSIVE DigitsValue(_)
DigitsValue(s) ==
    IF s = <<>> THEN 0
    ELSE 10 * DigitsValue(SubSeq(s, 1, Len(s) - 1)) + DigitVal(s[Len(s)])

Signed(s) == s # <<>> /\ s[1] \in {"-", "+"}
Unsigned(s) == IF Signed(s) THEN Tail(s) ELSE s
Sign(s) == IF s # <<>> /\ s[1] = "-" THEN -1 ELSE 1

\* Number(string), for strings of signs, digits, blanks and other characters:
\* the blank string is 0, a signed run of digits is its value, the rest NaN
Number(s) ==
    LET t == Trim(s)
        body == Unsigned(t)
    IN  IF t = <<>> THEN Num(0)
        ELSE IF body # <<>> /\ \A i \in 1..Len(body) : body[i] \in Digit
        THEN Num(Sign(t) * DigitsValue(body))
        ELSE NaN

\* parseFloat(string): the longest signed run of digits the string starts
\* with, NaN when there is none
parseFloat(s) ==
    LET t == TrimLeft(s)
        body == Unsigned(t)
        n == CHOOSE k \in 0..Len(body) :
                /\ \A i \in 1..k : body[i] \in Digit
                /\ k = Len(body) \/ body[k + 1] \notin Digit
    IN  IF n = 0 THEN NaN ELSE Num(Sign(t) * DigitsValue(SubSeq(body, 1, n)))

\* .toLowerCase(), on the letters the headers of the model are written in
LowerChar(c) ==
    CASE c = "A" -> "a" [] c = "B" -> "b" [] c = "C" -> "c" [] c = "D" -> "d"
      [] c = "N" -> "n" [] c = "R" -> "r" [] c = "V" -> "v" [] c = "O" -> "o"
      [] c = "U" -> "u" [] c = "T" -> "t" [] c = "S" -> "s" [] c = "G" -> "g"
      [] c = "I" -> "i" [] OTHER -> c
LowerStr(s) == [i \in 1..Len(s) |-> LowerChar(s[i])]

\* whether the string has the word as a substring
Contains(s, word) ==
    \E i \in 1..(Len(s) - Len(word) + 1) : SubSeq(s, i, i + Len(word) - 1) = word

ContainsAny(s, words) == \E w \in words : Contains(s, w)

W_amount == <<"a", "m", "o", "u", "n", "t">>
W_debit == <<"d", "e", "b", "i", "t">>
W_credit == <<"c", "r", "e", "d", "i", "t">>
W_balance == <<"b", "a", "l", "a", "n", "c", "e">>
W_value == <<"v", "a", "l", "u", "e">>
W_account == <<"a", "c", "c", "o", "u", "n", "t">>

\* findIndex(h => /w1|w2|.../i.test(h)): the 0-based index of the first
\* header holding one of the words, -1 when there is none
FindIndex(hs, words) ==
    LET Test(h) == ContainsAny(LowerStr(h), words) IN
    IF \E i \in 1..Len(hs) : Test(hs[i])
    THEN (CHOOSE i \in 1..Len(hs) : Test(hs[i]) /\ \A j \in 1..(i - 1) : ~Test(hs[j])) - 1
    ELSE -1

\* the text of a header cell
HeaderText(cell) == IF cell.t = "string" THEN cell.s ELSE <<>>
HeaderOf(sheet) == [i \in 1..Len(sheet[1]) |-> HeaderText(sheet[1][i])]

\* parseCSV: amtIdx is the first header matching amount|debit|credit|balance
\* (lower-cased), 1 when there is none; nameIdx is 0
CsvAmtIdx(sheet) ==
    LET amtCand == FindIndex(HeaderOf(sheet), {W_amount, W_debit, W_credit, W_balance})
    IN  IF amtCand > -1 THEN amtCand ELSE 1

\* the numeric or numeric-like cells parseXLSX scores a column by
NumericLike(cell) ==
    \/ cell.t = "number"
    \/ cell.t = "string" /\ Trim(cell.s) # <<>> /\ ~Number(StripSeparators(cell.s)).nan

XlsxScore(sheet, c) == Cardinality({ r \in 2..Len(sheet) : NumericLike(CellAt(sheet[r], c)) })

\* parseXLSX: among the columns 1..min(5, width)-1 the first one with the
\* highest score, 1 when there is no such column
XlsxAmtIdx(sheet) ==
    LET maxCols == IF Len(sheet[1]) < 5 THEN Len(sheet[1]) ELSE 5
        cols == 1..(maxCols - 1)
    IN  IF cols = {} THEN 1
        ELSE CHOOSE c \in cols :
                /\ \A d \in cols : XlsxScore(sheet, d) <= XlsxScore(sheet, c)
                /\ \A d \in cols : d < c => XlsxScore(sheet, d) < XlsxScore(sheet, c)

\* toKeyValue: the columns are the keys of the first row object; the first
\* one matching /account/i, else the first; the first one matching
\* /(amount|balance|value|debit|credit)/i, else the second
KvAccountCol(sheet) ==
    LET m == FindIndex(HeaderOf(sheet), {W_account})
    IN  IF m > -1 THEN m ELSE 0

KvAmountCol(sheet) ==
    LET m == FindIndex(HeaderOf(sheet), {W_amount, W_balance, W_value, W_debit, W_credit})
    IN  IF m > -1 THEN m ELSE 1

TbParsers == {"parseCSV", "parseXLSX", "toKeyValue"}

NameIdx(p, sheet) == IF p = "toKeyValue" THEN KvAccountCol(sheet) ELSE 0

AmtIdx(p, sheet) ==
    CASE p = "parseCSV" -> CsvAmtIdx(sheet)
      [] p = "parseXLSX" -> XlsxAmtIdx(sheet)
      [] OTHER -> KvAmountCol(sheet)

\* the account name of a row: the trimmed text of its name cell
RowName(cell) == IF cell.t = "string" THEN Trim(cell.s) ELSE <<>>

\* the amount a parser reads from a cell
\*   parseCSV:   Number(amtRaw.replace(/[, ]/g, ""))
\*   parseXLSX:  the number, or Number of the stripped string
\*   toKeyValue: the number, or parseFloat of the stripped string
RowAmount(p, cell) ==
    CASE cell.t = "number" -> Num(cell.v)
      [] cell.t = "string" ->
            IF p = "toKeyValue" THEN parseFloat(StripSeparators(cell.s))
            ELSE Number(StripSeparators(cell.s))
      [] OTHER ->
            IF p = "parseCSV" THEN Num(0) ELSE NaN

\* out[name] || 0
Get(o, name) == IF name \in DOMAIN o THEN o[name] ELSE 0

\* out[name] = (out[name] || 0) + v
Put(o, name, v) ==
    [n \in DOMAIN o \cup {name} |-> IF n = name THEN Get(o, name) + v ELSE o[n]]

\* out[key] = v
Set(o, name, v) == [n \in DOMAIN o \cup {name} |-> IF n = name THEN v ELSE o[n]]

\* the mapping after one data row, were a repeated name ignored
AfterRow_FirstOnly(p, sheet, o, row) ==
    LET name == RowName(CellAt(row, NameIdx(p, sheet)))
        amt == RowAmount(p, CellAt(row, AmtIdx(p, sheet)))
    IN  IF name = <<>> \/ amt.nan \/ name \in DOMAIN o THEN o ELSE Put(o, name, amt.v)

\* the mapping after one data row
AfterRow(p, sheet, o, row) ==
    LET name == RowName(CellAt(row, NameIdx(p, sheet)))
        amt == RowAmount(p, CellAt(row, AmtIdx(p, sheet)))
    IN  IF name = <<>> THEN o
        ELSE IF p = "toKeyValue" THEN Set(o, name, IF amt.nan THEN 0 ELSE amt.v)
        ELSE IF amt.nan THEN o
        ELSE Put(o, name, amt.v)

\* One iteration of the loop over the data rows.
ParseRow ==
    /\ pc = "init"
    /\ handler \in TbParsers
    /\ idx < Len(event.sheet)
    /\ result' = AfterRow(handler, event.sheet, result, event.sheet[idx + 1])
    /\ idx' = idx + 1
    /\ UNCHANGED <<ifrsSummary, preload, writes, requests,
                   handler, pc, event, env, candidates, lastErr, calls, parts, echo,
                   totalBytes, timer, bodyParsed, responses>>

\* return out
ParseReturn ==
    /\ pc = "init"
    /\ handler \in TbParsers
    /\ idx >= Len(event.sheet)
    /\ pc' = "done"
    /\ UNCHANGED <<ifrsSummary, preload, writes, requests,
                   handler, event, env, candidates, idx, lastErr, calls, parts, echo,
                   totalBytes, timer, bodyParsed, responses, result,
          ifrsSummary, preload, writes, requests>>

\* the sheets the extractors are run on
NameCells == { StrCell(<<"S">>), StrCell(<<" ", "S">>), StrCell(<<"R">>), StrCell(<<>>) }

AmountCells ==
    { NumCell(5), StrCell(<<"7">>), StrCell(<<"1", ",", "0">>), StrCell(<<"n", "a">>),
      StrCell(<<"2", "x">>), NoCell }

DataRows == { <<n, a>> : n \in NameCells, a \in AmountCells }

Headers ==
    { << StrCell(<<"N">>), StrCell(<<"V">>) >>,
      << StrCell(<<"A", "c", "c", "o", "u", "n", "t">>),
         StrCell(<<"A", "m", "o", "u", "n", "t">>) >> }

Sheets ==
    { <<>> } \cup
    { <<h>> \o rows : h \in Headers, rows \in UNION { [1..n -> DataRows] : n \in 0..MaxRows } }

\* text split on commas holds strings only
CsvSheets ==
    { sh \in Sheets : \A r \in 1..Len(sh) : \A c \in 1..Len(sh[r]) :
        sh[r][c].t # "number" /\ (sh[r][c].t = "string" => "," \notin { sh[r][c].s[i] : i \in 1..Len(sh[r][c].s) }) }

ParserEvents(p) == { [sheet |-> sh] : sh \in (IF p = "parseCSV" THEN CsvSheets ELSE Sheets) }

----------------------------------------------------------------------------
(* The registry handlers: company profile, company search and filing       *)
(* history, each with its variants.  One invocation of one variant; the    *)
(* registry answers are chosen when the call is made.                      *)

FilingHandlers ==
    {"FH_Main", "FH_Sorted", "P17_FH_A", "P17_FH_B", "P18_FH", "P19_FH", "P20_FH", "P21_FH"}

\* the company-profile variants, the search handler and the filing-history
\* variants
RegistryHandlers ==
    {"CH_Main", "RTB_Profile", "P0_Profile", "P13_Profile", "P14_Profile",
     "P15_Profile", "P16_Profile"}
    \cup {"P16_Search"}
    \cup FilingHandlers

\* event.queryStringParameters?.company: the variants that read the
\* parameter through optional chaining
OptionalQuery(h) ==
    h \in {"RTB_Profile", "P13_Profile", "P14_Profile", "FH_Sorted", "P17_FH_A",
           "P17_FH_B", "P20_FH"}

\* the variants that read the parameter inside their try block
QueryInTry(h) == h \in {"RTB_Profile", "P15_Profile", "P16_Profile", "P16_Search", "P20_FH"}

\* the variants that answer 500 when the key is not set
ChecksKey(h) ==
    h \in {"RTB_Profile", "P15_Profile", "P16_Search", "FH_Main", "P21_FH", "P20_FH"}

\* whether the environment variable the variant reads is set
KeySet(h, en) ==
    CASE h \in {"CH_Main", "P13_Profile", "P14_Profile", "FH_Sorted", "P17_FH_A",
                "P17_FH_B", "P18_FH", "P19_FH"} -> en.COMPANIES_HOUSE_KEY
      [] h = "P20_FH" -> en.COMPANIES_HOUSE_API_KEY \/ en.COMPANIES_HOUSE_KEY
      [] h = "P16_Profile" -> en.COMPANIES_HOUSE_API_KEY
      [] OTHER -> en.COMPANIES_HOUSE_API_KEY

\* the 400 of each variant for a missing parameter
MissingQueryError(h) ==
    CASE h \in {"P0_Profile", "P15_Profile", "P16_Profile"} -> "Missing company number"
      [] h = "RTB_Profile" -> "Missing company number in query"
      [] h = "P16_Search" -> "Missing search query"
      [] h = "P20_FH" -> "company is required"
      [] OTHER -> "Company number is required"

\* .slice(0, n) of the sorted variants; 0 where the list is not cut
PageSize(h) ==
    CASE h = "FH_Sorted" -> 10
      [] h \in {"P17_FH_A", "P17_FH_B"} -> 20
      [] OTHER -> 0

\* the word the filters look for
T_accounts == <<"a", "c", "c", "o", "u", "n", "t", "s">>

NoLink == <<>>

\* an item of the registry's filing history: date 0 is a missing date,
\* meta the segments of links.document_metadata
Item(description, type, date, meta) ==
    [description |-> description, type |-> type, date |-> date, meta |-> meta]

\* the items of the model: description and type are "accounts", "ACCOUNTS",
\* missing, or a text without the word
ItemUniverse ==
    { Item(dt[1], dt[2], d, m) :
        dt \in { <<T_accounts, <<"A", "A">> >>,
                 << <<"A", "C", "C", "O", "U", "N", "T", "S">>, <<"A", "A">> >>,
                 << <<>>, <<"A", "A">> >>,
                 << <<"d", "i", "r">>, T_accounts >> },
        d \in 0..2,
        m \in { NoLink, <<"document", "d1">> } }

ItemLists == UNION { [1..n -> ItemUniverse] : n \in 0..MaxItems }

\* s.toLowerCase().includes("accounts"), false for a missing text
MentionsAccounts(s) == Contains(LowerStr(s), T_accounts)

\* the filter of each filing-history variant
Keeps(h, f) ==
    CASE h \in {"FH_Main", "P21_FH"} -> MentionsAccounts(f.description) /\ f.meta # NoLink
      [] h \in {"FH_Sorted", "P17_FH_A", "P17_FH_B"} ->
            MentionsAccounts(f.type) \/ MentionsAccounts(f.description)
      [] h = "P20_FH" -> MentionsAccounts(f.description)
      [] OTHER -> TRUE

\* an entry of a returned list: pos is the position of its item in the
\* registry's list
Entry(pos, f) ==
    [pos |-> pos, date |-> f.date, documentId |-> "", pdfUrl |-> "", viewerUrl |-> FALSE,
     downloadable |-> FALSE]

RECURSIVE Filtered(_, _, _)
\* items.filter(...), over the first k items
Filtered(h, items, k) ==
    IF k = 0 THEN <<>>
    ELSE Filtered(h, items, k - 1)
         \o (IF Keeps(h, items[k]) THEN << Entry(k, items[k]) >> ELSE <<>>)

\* where a stable descending sort puts x into a list sorted so far
InsertDesc(s, x) ==
    LET k == Cardinality({ i \in 1..Len(s) : s[i].date >= x.date })
    IN  SubSeq(s, 1, k) \o <<x>> \o SubSeq(s, k + 1, Len(s))

RECURSIVE SortDesc(_)
\* results.sort((a, b) => (b.date || "").localeCompare(a.date || ""))
SortDesc(s) ==
    IF s = <<>> THEN <<>>
    ELSE InsertDesc(SortDesc(SubSeq(s, 1, Len(s) - 1)), s[Len(s)])

\* .sort((a, b) => new Date(b.date) - new Date(a.date)): descending by date;
\* with a missing date the comparator yields NaN and the order is whatever
\* the engine makes of it
DateSortOutcomes(s) ==
    LET Injective(q) == \A i, j \in 1..Len(s) : q[i] = q[j] => i = j
        Orders == { [i \in 1..Len(s) |-> s[p[i]]] :
                      p \in { q \in [1..Len(s) -> 1..Len(s)] : Injective(q) } }
    IN  IF \A i \in 1..Len(s) : s[i].date # 0 THEN { SortDesc(s) } ELSE Orders

\* .slice(0, n)
Slice(s, n) == IF Len(s) <= n THEN s ELSE SubSeq(s, 1, n)

\* the lists a variant can return for the registry's items
ListOutcomesOf(h, items) ==
    LET kept == Filtered(h, items, Len(items)) IN
    IF PageSize(h) > 0 THEN { Slice(s, PageSize(h)) : s \in DateSortOutcomes(kept) }
    ELSE { kept }

\* the body of an upstream answer: whether there is one, whether it is
\* JSON, and, for a filing history, whether its items field is an array
Body(present, json, hasItems, items) ==
    [present |-> present, json |-> json, hasItems |-> hasItems, items |-> items]
NoBody == Body(FALSE, FALSE, FALSE, <<>>)
TextBody == Body(TRUE, FALSE, FALSE, <<>>)
JsonBody == Body(TRUE, TRUE, FALSE, <<>>)

\* an answer of the registry: ok is response.ok
Answer(kind, status, body) == [kind |-> kind, status |-> status, body |-> body]

\* the answers of the model: refusals with a JSON or a text body, a
\* rejected request, successes with a text body, with JSON without items
\* and, for a filing history, with each list of items
RegistryAnswers(h) ==
    { Answer("http", 404, JsonBody), Answer("http", 401, TextBody),
      Answer("http", 500, TextBody), Answer("network", 0, NoBody) }
    \cup { Answer("ok", 200, TextBody), Answer("ok", 200, JsonBody) }
    \cup (IF h \in FilingHandlers
          THEN { Answer("ok", 200, Body(TRUE, TRUE, TRUE, items)) : items \in ItemLists }
          ELSE {})

RegistryCall(api, answer) == [api |-> api, model |-> NoModel, result |-> answer]

\* a response of a registry handler: details is the upstream body it
\* carries, items the list it returns
RegistryResponse(status, error) ==
    [status |-> status, error |-> error, details |-> NoBody, items |-> <<>>]

\* the response to a registry answer that is not a success
HttpFailure(h, a) ==
    LET Plain(status, error) == RegistryResponse(status, error)
        Carry(error) == [RegistryResponse(a.status, error) EXCEPT !.details = a.body]
    IN
    CASE h = "P0_Profile" -> Plain(500, "Failed to fetch from Companies House")
      [] h \in {"CH_Main", "P19_FH"} ->
            IF a.body.json THEN Plain(a.status, "API request failed")
            ELSE Plain(a.status, "Non-JSON response from API")
      [] h = "RTB_Profile" -> Carry("Companies House API error")
      [] h \in {"P13_Profile", "P14_Profile", "FH_Sorted"} -> Carry("API request failed")
      [] h \in {"P17_FH_A", "P17_FH_B"} -> Carry("API request failed with status")
      [] h = "P15_Profile" -> Carry("Companies House API request failed")
      [] h = "P16_Profile" -> Plain(a.status, "Companies House API error")
      [] h = "P16_Search" ->
            IF a.body.json THEN Plain(a.status, "Search failed") ELSE Plain(500, "err.message")
      [] h \in {"FH_Main", "P21_FH"} -> Plain(a.status, "Failed to fetch filing history")
      [] h = "P18_FH" ->
            IF a.body.json THEN Plain(200, "") ELSE Plain(500, "err.message")
      [] h = "P20_FH" -> Carry("")

\* the 500 of each variant that checks its key
MissingKeyError(h) ==
    CASE h \in {"FH_Main", "P21_FH"} -> "Missing Companies House API key"
      [] h = "RTB_Profile" -> "API key not set in environment variables"
      [] h = "P15_Profile" -> "Server misconfiguration: API key missing"
      [] h = "P20_FH" -> "Missing COMPANIES_HOUSE_API_KEY"
      [] OTHER -> "Missing API key"

\* the error of the catch block of each variant
CaughtError(h) ==
    CASE h = "P0_Profile" -> "Failed to fetch from Companies House"
      [] h = "P16_Profile" -> "Server error"
      [] h = "RTB_Profile" -> "Unexpected server error"
      [] h \in {"P17_FH_A", "P17_FH_B"} -> "Unexpected error fetching filings"
      [] OTHER -> "err.message"

\* the response to a successful registry answer, list being the filtered
\* and ordered items
OkResponse(h, a, list) ==
    IF ~a.body.json
    THEN CASE h \in {"CH_Main", "P19_FH"} ->
                  RegistryResponse(a.status, "Non-JSON response from API")
           [] h = "P15_Profile" -> RegistryResponse(200, "")
           [] OTHER -> RegistryResponse(500, CaughtError(h))
    ELSE IF h \in FilingHandlers /\ ~a.body.hasItems /\ h \in {"P21_FH", "FH_Sorted", "P17_FH_A", "P17_FH_B"}
    THEN RegistryResponse(500, CaughtError(h))
    ELSE [RegistryResponse(200, "") EXCEPT !.items = list]

\* one invocation of a registry handler up to its first response, or, for
\* the variant that resolves documents, up to the start of its loop
RegistryRequest ==
    /\ pc = "init"
    /\ handler \in RegistryHandlers
    /\ UNCHANGED <<ifrsSummary, preload, writes, requests,
                   handler, event, env, candidates, lastErr, parts, echo, totalBytes, timer,
                   bodyParsed, idx>>
    /\ IF event.query = "none" /\ ~OptionalQuery(handler)
       THEN IF QueryInTry(handler)
            THEN /\ pc' = "done"
                 /\ responses' = << RegistryResponse(500, CaughtError(handler)) >>
                 /\ UNCHANGED <<calls, result>>
            ELSE /\ pc' = "threw"
                 /\ UNCHANGED <<calls, result, responses>>
       ELSE IF event.query # "given"
       THEN /\ pc' = "done"
            /\ responses' = << RegistryResponse(400, MissingQueryError(handler)) >>
            /\ UNCHANGED <<calls, result>>
       ELSE IF ChecksKey(handler) /\ ~KeySet(handler, env)
       THEN /\ pc' = "done"
            /\ responses' = << RegistryResponse(500, MissingKeyError(handler)) >>
            /\ UNCHANGED <<calls, result>>
       ELSE \E a \in RegistryAnswers(handler) :
              /\ calls' = << RegistryCall("registry", a) >>
              /\ result' = <<>>
              /\ IF a.kind = "network"
                 THEN /\ pc' = "done"
                      /\ responses' = << RegistryResponse(500, CaughtError(handler)) >>
                 ELSE IF a.kind = "http"
                 THEN /\ pc' = "done"
                      /\ responses' = << HttpFailure(handler, a) >>
                 ELSE IF handler = "P20_FH" /\ a.body.json
                 THEN /\ pc' = "filings"
                      /\ UNCHANGED responses
                 ELSE /\ pc' = "done"
                      /\ \E list \in ListOutcomesOf(handler, a.body.items) :
                           responses' = << OkResponse(handler, a, list) >>

\* const accountFilings = items.filter(...)
accountFilings ==
    LET items == calls[1].result.body.items IN Filtered("P20_FH", items, Len(items))

\* docMetaPath.split("/").filter(Boolean).pop(), "" for null
DocIdOf(meta) == IF meta = NoLink THEN "" ELSE meta[Len(meta)]

\* an answer of the document API
DocAnswer(kind, status, json, hasPdf, location) ==
    [kind |-> kind, status |-> status, json |-> json, hasPdf |-> hasPdf,
     location |-> location]
NoAnswer == DocAnswer("none", 0, FALSE, FALSE, "")

MetaAnswers ==
    { DocAnswer("network", 0, FALSE, FALSE, ""), DocAnswer("http", 404, TRUE, FALSE, ""),
      DocAnswer("ok", 200, FALSE, FALSE, ""), DocAnswer("ok", 200, TRUE, FALSE, ""),
      DocAnswer("ok", 200, TRUE, TRUE, "") }

ContentAnswers ==
    { DocAnswer("network", 0, FALSE, FALSE, ""), DocAnswer("redirect", 302, FALSE, FALSE, "pdf"),
      DocAnswer("redirect", 302, FALSE, FALSE, ""), DocAnswer("ok", 200, FALSE, FALSE, ""),
      DocAnswer("http", 404, FALSE, FALSE, "") }

\* getPdfUrl, had it taken the URL of a followed redirect
getPdfUrl_Followed(m, c) ==
    LET meta == RegistryCall("document", m)
        content == RegistryCall("content", c)
    IN
    IF m.kind = "network" \/ (m.kind = "ok" /\ ~m.json)
    THEN [calls |-> <<meta>>, threw |-> TRUE, pdfUrl |-> ""]
    ELSE IF m.kind # "ok" \/ ~m.hasPdf
    THEN [calls |-> <<meta>>, threw |-> FALSE, pdfUrl |-> ""]
    ELSE IF c.kind = "network"
    THEN [calls |-> <<meta, content>>, threw |-> TRUE, pdfUrl |-> ""]
    ELSE [calls |-> <<meta, content>>, threw |-> FALSE,
          pdfUrl |-> IF c.status = 302 THEN c.location
                     ELSE IF c.kind = "ok" THEN "final" ELSE ""]

\* getPdfUrl on the answers of its two requests: the requests it made,
\* whether it threw, and the URL it returned ("" for null)
getPdfUrl(m, c) ==
    LET Returned(made, url) == [calls |-> made, threw |-> FALSE, pdfUrl |-> url]
        Threw(made) == [calls |-> made, threw |-> TRUE, pdfUrl |-> ""]
        meta == RegistryCall("document", m)
        content == RegistryCall("content", c)
    IN
    IF m.kind = "network" THEN Threw(<<meta>>)
    ELSE IF m.kind # "ok" THEN Returned(<<meta>>, "")
    ELSE IF ~m.json THEN Threw(<<meta>>)
    ELSE IF ~m.hasPdf THEN Returned(<<meta>>, "")
    ELSE IF c.kind = "network" THEN Threw(<<meta, content>>)
    ELSE IF c.status = 302 THEN Returned(<<meta, content>>, c.location)
    ELSE Returned(<<meta, content>>, "")

\* one turn of the loop over the accounts filings
ResolveDocument ==
    /\ pc = "filings"
    /\ idx <= Len(accountFilings)
    /\ UNCHANGED <<ifrsSummary, preload, writes, requests,
                   handler, event, env, candidates, lastErr, parts, echo, totalBytes, timer,
                   bodyParsed>>
    /\ LET f == accountFilings[idx]
           docId == DocIdOf(calls[1].result.body.items[f.pos].meta)
       IN
       IF docId = ""
       THEN /\ result' = Append(result, [f EXCEPT !.viewerUrl = TRUE])
            /\ idx' = idx + 1
            /\ UNCHANGED <<pc, calls, responses>>
       ELSE \E m \in MetaAnswers :
            \E c \in (IF m.kind = "ok" /\ m.json /\ m.hasPdf
                      THEN ContentAnswers ELSE {NoAnswer}) :
              LET r == getPdfUrl(m, c) IN
              /\ calls' = calls \o r.calls
              /\ IF r.threw
                 THEN /\ pc' = "done"
                      /\ responses' = << RegistryResponse(500, CaughtError(handler)) >>
                      /\ UNCHANGED <<result, idx>>
                 ELSE /\ result' = Append(result,
                              [f EXCEPT !.documentId = docId, !.pdfUrl = r.pdfUrl,
                                        !.viewerUrl = TRUE, !.downloadable = (r.pdfUrl # "")])
                      /\ idx' = idx + 1
                      /\ UNCHANGED <<pc, responses>>

\* after the loop: sort newest first and answer
FilingsReturn ==
    /\ pc = "filings"
    /\ idx > Len(accountFilings)
    /\ pc' = "done"
    /\ responses' = << [RegistryResponse(200, "") EXCEPT !.items = SortDesc(result)] >>
    /\ UNCHANGED <<ifrsSummary, preload, writes, requests,
                   handler, event, env, candidates, lastErr, parts, echo, totalBytes, timer,
                   bodyParsed, calls, result, idx>>

\* the environments a variant is run in: only the variables it reads vary
RegistryEnvs(h) ==
    { [COMPANIES_HOUSE_API_KEY |-> a, COMPANIES_HOUSE_KEY |-> k] :
        a \in (IF KeySet(h, [COMPANIES_HOUSE_API_KEY |-> TRUE, COMPANIES_HOUSE_KEY |-> FALSE])
               THEN BOOLEAN ELSE {FALSE}),
        k \in (IF KeySet(h, [COMPANIES_HOUSE_API_KEY |-> FALSE, COMPANIES_HOUSE_KEY |-> TRUE])
               THEN BOOLEAN ELSE {FALSE}) }

RegistryInit ==
    /\ handler \in RegistryHandlers
    /\ event \in { [httpMethod |-> "GET", query |-> q] : q \in {"none", "absent", "given"} }
    /\ env \in RegistryEnvs(handler)
    /\ pc = "init"
    /\ candidates = <<>>
    /\ idx = 1
    /\ lastErr = NoErr
    /\ calls = <<>>
    /\ parts = <<>>
    /\ echo = <<>>
    /\ totalBytes = 0
    /\ timer = "none"
    /\ bodyParsed = FALSE
    /\ responses = <<>>
    /\ result = <<>>
    /\ ifrsSummary = <<>>
    /\ preload = "none"
    /\ writes = <<>>
    /\ requests = <<>>

RegistryNext ==
    \/ RegistryRequest
    \/ ResolveDocument
    \/ FilingsReturn

RegistrySpec == RegistryInit /\ [][RegistryNext]_vars

----------------------------------------------------------------------------

Methods == {"POST", "GET"}

GenEnvs(overrides) ==
    { [GEMINI_API_KEY |-> k, GEMINI_MODEL |-> m, DRY_RUN |-> d,
       COMPANIES_HOUSE_API_KEY |-> TRUE, OPENAI_API_KEY |-> TRUE] :
        k \in BOOLEAN, m \in overrides, d \in BOOLEAN }

UploadEnvs(h) ==
    { [GEMINI_API_KEY |-> g, GEMINI_MODEL |-> NoModel, DRY_RUN |-> FALSE,
       COMPANIES_HOUSE_API_KEY |-> c, OPENAI_API_KEY |-> o] :
        g \in (IF h = "PU_Gemini" THEN BOOLEAN ELSE {TRUE}),
        c \in (IF h \in {"PU_OpenAI", "P7_PU", "P10_PU"} THEN BOOLEAN ELSE {TRUE}),
        o \in (IF h \in AiUploadHandlers \ {"PU_Gemini"} THEN BOOLEAN ELSE {TRUE}) }

Event(method, body) == [httpMethod |-> method, body |-> body]

\* the events and environments each handler variant is run on; a request
\* that is not a POST carries no body the handler would read
EventsOf(h) ==
    IF h \in UploadHandlers THEN UploadEvents
    ELSE IF h \in TbParsers THEN ParserEvents(h)
    ELSE IF h \in FileHandlers
    THEN { Event("POST", b) : b \in FileBodies }
         \cup { Event("GET", b) : b \in { x \in FileBodies : x.kind = "invalid" } }
    ELSE { Event(m, b) : m \in Methods, b \in TbBodies }

EnvsOf(h) ==
    IF h \in UploadHandlers \cup TbParsers THEN UploadEnvs(h)
    ELSE IF h \in FileHandlers
    THEN GenEnvs({NoModel, <<"custom">>})
    ELSE { e \in GenEnvs(ModelOverrides) : ~e.DRY_RUN }

GenHandlers == FallbackHandlers \cup ListPickHandlers \cup FileHandlers

Init ==
    /\ handler \in GenHandlers \cup UploadHandlers \cup TbParsers
    /\ event \in EventsOf(handler)
    /\ env \in EnvsOf(handler)
    /\ pc = "init"
    /\ candidates = <<>>
    /\ idx = 1
    /\ lastErr = NoErr
    /\ calls = <<>>
    /\ parts = <<>>
    /\ echo = <<>>
    /\ totalBytes = 0
    /\ timer = "none"
    /\ bodyParsed = FALSE
    /\ responses = <<>>
    /\ result = <<>>
    /\ ifrsSummary = <<>>
    /\ preload = "none"
    /\ writes = <<>>
    /\ requests = <<>>

Next ==
    \/ FallbackStart
    \/ Attempt
    \/ ListModelsSettles
    \/ ListPickStart
    \/ ListPickListed
    \/ ListPickGenerated
    \/ FilesStart
    \/ FileStep
    \/ FilesDone
    \/ TimerFires
    \/ FilesGenerated
    \/ UploadHandler
    \/ ParseRow
    \/ ParseReturn

Spec == Init /\ [][Next]_vars

----------------------------------------------------------------------------
(* The column choice of parseCSV and parseXLSX on sheets of every width up *)
(* to MaxCols: the same extractors, run on wider and narrower sheets.      *)

\* the data rows of a spreadsheet of width w: the first cell is a name, the
\* next two a number, a numeric-like string or a text, the others a number
\* or a text
ColumnRows(w) ==
    { <<StrCell(<<"S">>)>> \o tail :
        tail \in { t \in [1..(w - 1) -> { NumCell(5), StrCell(<<"7">>), StrCell(<<"n", "a">>) }] :
                     \A c \in 3..(w - 1) : t[c] # StrCell(<<"7">>) } }

\* spreadsheets of each width; the header is irrelevant to parseXLSX
XlsxColumnSheets ==
    UNION { { << [c \in 1..w |-> StrCell(<<"V">>)] >> \o rows :
                rows \in UNION { [1..n -> ColumnRows(w)] : n \in 1..MaxRows } } :
            w \in 1..MaxCols }

\* CSV files: each header is a word the pattern matches or one it does not;
\* one data row
CsvColumnSheets ==
    UNION { { << hs, [c \in 1..w |-> StrCell(<<"7">>)] >> :
                hs \in [1..w -> { StrCell(<<"N">>), StrCell(<<"D", "e", "b", "i", "t">>),
                                  StrCell(<<"A", "m", "o", "u", "n", "t">>) }] } :
            w \in 1..MaxCols }

ColumnInit ==
    /\ handler \in {"parseCSV", "parseXLSX"}
    /\ event \in { [sheet |-> sh] :
                      sh \in (IF handler = "parseCSV" THEN CsvColumnSheets
                              ELSE XlsxColumnSheets) }
    /\ env \in EnvsOf(handler)
    /\ pc = "init"
    /\ candidates = <<>>
    /\ idx = 1
    /\ lastErr = NoErr
    /\ calls = <<>>
    /\ parts = <<>>
    /\ echo = <<>>
    /\ totalBytes = 0
    /\ timer = "none"
    /\ bodyParsed = FALSE
    /\ responses = <<>>
    /\ result = <<>>
    /\ ifrsSummary = <<>>
    /\ preload = "none"
    /\ writes = <<>>
    /\ requests = <<>>

ColumnNext ==
    \/ ParseRow
    \/ ParseReturn

ColumnSpec == ColumnInit /\ [][ColumnNext]_vars

----------------------------------------------------------------------------
(* Properties *)

Done == pc = "done"
Response == responses[1]
GenCalls == SelectSeq(calls, LAMBDA c : c.api = "generateContent")
Failed(out) == out.kind \in {"http", "badjson", "network", "abort"}
Files == event.body.files

\* an error of the model-not-found class: a 404, or a body that says
\* "not found" or "not supported"
InNotFoundClass(out) ==
    /\ out.kind = "http"
    /\ out.status = 404 \/ "not found" \in out.msg \/ "not supported" \in out.msg

\* C1: in the candidate loops of part_002 and part_003, when the call for the
\* first candidate fails with an error of the model-not-found class the
\* second candidate is called, and when that call succeeds the handler
\* answers 200 with the second candidate as the model and calls no third.
C1_AdvanceToNext ==
    (handler \in {"P2_Rest", "P3_Sdk"} /\ Done /\ Len(GenCalls) >= 1
        /\ InNotFoundClass(GenCalls[1].result))
    => /\ Len(GenCalls) >= 2
       /\ Succeeded(GenCalls[2].result)
            => /\ Len(GenCalls) = 2
               /\ Response.status = 200
               /\ Response.model = candidates[2]

\* C2: in every candidate loop, a call that fails with an error outside the
\* model-not-found class is the last call issued, and the handler has
\* answered with that candidate's error.
C2_StopOnOtherError ==
    handler \in FallbackHandlers
    => \A i \in 1..Len(GenCalls) :
          (Failed(GenCalls[i].result) /\ ~InNotFoundClass(GenCalls[i].result))
          => /\ i = Len(GenCalls)
             /\ Len(calls) = i
             /\ Done
             /\ Response.status = 500
             /\ Response.model = candidates[i]
             /\ Response.details = ErrorOf(GenCalls[i].result)

\* the errors each variant's loop goes on from
GoesOn(h, out) ==
    /\ Failed(out)
    /\ CASE h = "P2_Rest" -> out.kind = "http" /\ (out.status = 404 \/ "not found" \in out.msg)
         [] h = "P3_Sdk" -> out.kind = "http" /\ (out.status = 404 \/ "not found" \in out.msg
                                                    \/ "not supported" \in out.msg)
         [] OTHER -> TRUE

AllAttempted == Len(candidates) > 0 /\ Len(GenCalls) = Len(candidates)

\* the model listing is the call right after the last candidate's failed
\* attempt, and nothing follows it
ListingOnlyAfterExhaustion ==
    \A k \in 1..Len(calls) :
        calls[k].api = "listModels"
        => /\ k = Len(candidates) + 1
           /\ k = Len(calls)
           /\ \A i \in 1..(k - 1) :
                /\ calls[i].api = "generateContent"
                /\ calls[i].model = SentModel(handler, candidates[i])
                /\ Failed(calls[i].result)

\* C3 as stated: whenever every candidate has been attempted and none
\* succeeded the answer is the aggregate error whose tried list is the
\* candidate list.
C3_AsStated ==
    (handler \in FallbackHandlers /\ Done /\ AllAttempted
        /\ \A i \in 1..Len(GenCalls) : ~Succeeded(GenCalls[i].result))
    => /\ Response.status = 500
       /\ Response.tried = candidates
       /\ ListingOnlyAfterExhaustion

\* C3: when every candidate has been attempted and each attempt failed with
\* an error its variant goes on from, the answer is the aggregate 500 whose
\* tried list is the candidate list in attempt order; a last candidate that
\* fails with another error is answered with its own error and no tried
\* list; the model listing is issued only after the last attempt failed.
C3_Exhausted ==
    handler \in FallbackHandlers
    => /\ ListingOnlyAfterExhaustion
       /\ (Done /\ AllAttempted
             /\ \A i \in 1..Len(GenCalls) : GoesOn(handler, GenCalls[i].result))
          => /\ Response.status = 500
             /\ Response.tried = candidates
             /\ \A i \in 1..Len(candidates) :
                    GenCalls[i].model = SentModel(handler, candidates[i])
             /\ handler \in RestHandlers => calls[Len(calls)].api = "listModels"
       /\ (Done /\ AllAttempted
             /\ Failed(GenCalls[Len(GenCalls)].result)
             /\ ~GoesOn(handler, GenCalls[Len(GenCalls)].result))
          => /\ Response.status = 500
             /\ Response.tried = <<>>
             /\ Response.model = candidates[Len(candidates)]
             /\ Len(calls) = Len(candidates)

C3_Witness ==
    /\ handler = "P2_Rest" /\ Done
    /\ env.GEMINI_MODEL = <<"models", "custom">>
    /\ Len(candidates) = 4 /\ Len(calls) = 5
    /\ calls[5].api = "listModels"
    /\ Response.tried = candidates

\* C4: a 200 of a candidate loop reports a candidate whose call returned
\* model text.
C4_SuccessHasText ==
    (handler \in FallbackHandlers /\ Done /\ Response.status = 200)
    => /\ GenCalls # <<>>
       /\ GenCalls[Len(GenCalls)].result.kind = "text"

\* C5: when the generation call returns without error and without text, the
\* answer is the no-text error: not a 200, not the request-failed error and
\* not the timeout.
C5_NoTextIsDistinct ==
    (handler \in {"GS_Files", "P3_Files", "GS_ListA"} /\ Done /\ GenCalls # <<>>
        /\ GenCalls[Len(GenCalls)].result.kind = "empty")
    => /\ Response.status \notin {200, 500, 504}
       /\ Response.error = "No text generated by Gemini"

\* C6: in generateStatements.js, once the timer is set: a deadline that fires
\* while the call is in flight aborts it and the answer is the 504; a call
\* that settles first is never answered with the 504, and its failure is the
\* 500 "Gemini request failed"; at most one response is produced and none
\* while the call is in flight; no timer is left armed after the response.
C6_Timeout ==
    (handler = "GS_Files" /\ timer # "none")
    => /\ Len(responses) <= 1
       /\ pc = "inflight" => responses = <<>>
       /\ Done
          => /\ Len(responses) = 1
             /\ timer \in {"fired", "cleared"}
             /\ timer = "fired"
                  => /\ Response.status = 504
                     /\ calls[Len(calls)].result.kind = "abort"
             /\ timer = "cleared"
                  => /\ Response.status # 504
                     /\ Failed(calls[Len(calls)].result)
                          => /\ Response.status = 500
                             /\ Response.error = "Gemini request failed"

C6_Witness ==
    /\ handler = "GS_Files" /\ Done
    /\ timer = "fired"
    /\ Response.status = 504

\* the handlers of the inbound POST surface
PostSurface == GenHandlers \cup TbHandlers \cup PdfHandlers \cup AiUploadHandlers

\* C7: a request whose method is not POST is answered 405 without parsing
\* the body and without any external call.
C7_MethodNotAllowed ==
    (handler \in PostSurface /\ event.httpMethod # "POST")
    => /\ ~bodyParsed
       /\ calls = <<>>
       /\ pc \in {"init", "done"}
       /\ Done => Response.status = 405

\* C8: every response of the generateStatements and processUpload variants
\* has a status of the documented set, and a 200 carries no error.
C8_StatusCodes ==
    handler \in GenHandlers \cup AiUploadHandlers
    => \A i \in 1..Len(responses) :
          /\ responses[i].status \in {200, 400, 405, 500, 502, 504}
          /\ responses[i].status = 200 => responses[i].error = ""

\* the positions of the attachments whose effective type is not accepted
Unsupported ==
    { i \in 1..Len(Files) : ~Files[i].isNull /\ MimeOf(handler, Files[i]) \notin Accepted(handler) }

AttachmentsBefore(k) == Cardinality({ i \in 1..(k - 1) : ~Files[i].isNull })

FilesRequest ==
    handler \in FileHandlers /\ event.httpMethod = "POST" /\ event.body.kind = "object"

\* C9 as stated: a request with an attachment of a type that is not accepted
\* is answered with the 400 that names that file and lists the accepted
\* types, and no attachment part is in the prompt.
C9_AsStated ==
    (FilesRequest /\ Done /\ Unsupported # {})
    => /\ Response.status = 400
       /\ Response.accepted
       /\ \E i \in Unsupported : Response.file = NameOf(Files[i])
       /\ Len(parts) = 1

\* C9: a request with an attachment of a type that is not accepted is always
\* answered 400 and no generation call is issued; when the loop reaches that
\* file's dispatch (the files before it were accepted, it has base64 data
\* and the running total is within the ceiling) the 400 names the file and
\* lists the accepted types, and the file adds no part: the parts are the
\* prompt and one part per earlier attachment.
C9_Unsupported ==
    (FilesRequest /\ Unsupported # {})
    => /\ calls = <<>>
       /\ pc \in {"init", "files", "done"}
       /\ Done
          => /\ Response.status = 400
             /\ (idx \in Unsupported /\ ~MissingBase64(handler, Files[idx].base64)
                   /\ totalBytes <= MaxUploadBytes)
                => /\ Response.error = "Unsupported type"
                   /\ Response.file = NameOf(Files[idx])
                   /\ Response.accepted
                   /\ Len(parts) = 1 + AttachmentsBefore(idx)

C9_Witness ==
    /\ FilesRequest /\ Done
    /\ idx = 2 /\ idx \in Unsupported
    /\ Response.error = "Unsupported type"
    /\ Response.file = NameOf(Files[2])
    /\ Len(parts) = 2

RECURSIVE SumApprox(_, _, _)
\* the sum of the approximate sizes of the first k files of a list
SumApprox(h, fs, k) ==
    IF k = 0 THEN 0
    ELSE SumApprox(h, fs, k - 1)
         + (IF fs[k].isNull THEN 0 ELSE ApproxBytes(StrippedLen(h, fs[k].base64)))

AttachmentIndex(n) ==
    CHOOSE k \in 1..Len(Files) : ~Files[k].isNull /\ AttachmentsBefore(k) = n - 1

PartsInUploadOrder ==
    (handler \in FileHandlers /\ parts # <<>>)
    => /\ parts[1] = PromptPart
       /\ Len(parts) - 1 <= AttachmentsBefore(idx)
       /\ \A i \in 2..Len(parts) :
            /\ parts[i].kind \in {"inlineData", "text"}
            /\ parts[i].name = NameOf(Files[AttachmentIndex(i - 1)])

PartsOnlyAppended ==
    \/ parts' = parts
    \/ /\ Len(parts') = Len(parts) + 1
       /\ SubSeq(parts', 1, Len(parts)) = parts

\* C11: while a generative request is built, the first part is the
\* instruction text and the i-th part after it belongs to the i-th listed
\* file that is not null; a step leaves the parts alone or appends one part.
C11_PartsOrder == []PartsInUploadOrder /\ [][PartsOnlyAppended]_vars

C11_Witness ==
    /\ handler \in FileHandlers
    /\ Len(Files) = 2
    /\ Len(parts) = 3
    /\ parts[2].kind = "text" /\ parts[3].kind = "inlineData"
    /\ parts[2].name # parts[3].name

RECURSIVE SumOfName(_, _, _, _)
\* the sum of the numeric amounts of the rows 2..k of the sheet that carry
\* the account name
SumOfName(p, sheet, name, k) ==
    IF k < 2 THEN 0
    ELSE LET amt == RowAmount(p, CellAt(sheet[k], AmtIdx(p, sheet)))
             mine == RowName(CellAt(sheet[k], NameIdx(p, sheet))) = name
         IN  SumOfName(p, sheet, name, k - 1) + (IF mine /\ ~amt.nan THEN amt.v ELSE 0)

RowsOfName(p, sheet, name) ==
    { r \in 2..Len(sheet) : RowName(CellAt(sheet[r], NameIdx(p, sheet))) = name }

\* C12: in the mapping an extractor returns, the amount of an account name
\* that occurs on more than one data row is the sum of the numeric amounts of
\* its rows.
C12_Accumulates ==
    (handler \in TbParsers /\ Done)
    => \A r \in 2..Len(event.sheet) :
          LET name == RowName(CellAt(event.sheet[r], NameIdx(handler, event.sheet))) IN
          (name # <<>> /\ Cardinality(RowsOfName(handler, event.sheet, name)) > 1)
          => Get(result, name) = SumOfName(handler, event.sheet, name, Len(event.sheet))

\* C13: a file whose base64 payload has a length that is not a multiple of
\* 4 is rejected: the loop never goes past such a file, and none of its
\* data is among the parts.
C13_Base64Integrity ==
    FilesRequest
    => /\ \A k \in 1..Len(Files) :
            (k < idx /\ ~Files[k].isNull)
            => StrippedLen(handler, Files[k].base64) % 4 = 0
       /\ \A i \in 1..Len(parts) :
            parts[i].kind = "inlineData" => parts[i].len % 4 = 0

----------------------------------------------------------------------------
(* Claims about the registry handlers, checked under RegistrySpec. *)

\* the items the registry returned to a filing-history handler
UpstreamItems == calls[1].result.body.items

\* a filing-history handler has answered 200 with a list made from the
\* registry's items
ListedFilings ==
    /\ handler \in FilingHandlers \ {"P18_FH", "P19_FH"}
    /\ Done
    /\ responses[1].status = 200
    /\ calls # <<>>
    /\ calls[1].result.kind = "ok"
    /\ calls[1].result.body.hasItems

\* whether the item at position k of the registry's list is in the response
Returned(k) == \E i \in 1..Len(responses[1].items) : responses[1].items[i].pos = k

\* C14: an item of the registry's list is in the handler's result if and
\* only if its description contains "accounts", whatever the case of its
\* letters; nothing else adds or removes an item.
C14_FilterIffAccounts ==
    ListedFilings =>
        \A k \in 1..Len(UpstreamItems) :
            Returned(k) <=> MentionsAccounts(UpstreamItems[k].description)

\* whether the item at position k passes the handler's own filter and is
\* nevertheless not in the response
Omitted(k) == Keeps(handler, UpstreamItems[k]) /\ ~Returned(k)

\* C15: the returned list is in descending order of date with the undated
\* items last, is no longer than the page size, and no returned item is
\* older than an omitted one.
C15_NewestFirst ==
    ListedFilings =>
        LET list == responses[1].items IN
        /\ \A i, j \in 1..Len(list) : i < j => list[i].date >= list[j].date
        /\ PageSize(handler) > 0 => Len(list) <= PageSize(handler)
        /\ \A k \in 1..Len(UpstreamItems) :
              Omitted(k) => \A i \in 1..Len(list) : list[i].date >= UpstreamItems[k].date

\* the document-resolving handler has answered after the registry returned
\* a filing history
ResolvedFilings ==
    /\ handler = "P20_FH"
    /\ Done
    /\ calls # <<>>
    /\ calls[1].result.kind = "ok"
    /\ calls[1].result.body.json

\* C16: whatever happens to the requests for a filing's document, the
\* request is answered 200, every accounts filing is in the list exactly
\* once with a viewer URL, and downloadable is true exactly when pdfUrl is
\* not null.
C16_PartialResults ==
    ResolvedFilings =>
        LET list == responses[1].items IN
        /\ responses[1].status = 200
        /\ \A k \in 1..Len(UpstreamItems) :
              MentionsAccounts(UpstreamItems[k].description) =>
                  /\ Cardinality({ i \in 1..Len(list) : list[i].pos = k }) = 1
                  /\ \A i \in 1..Len(list) : list[i].pos = k => list[i].viewerUrl
        /\ \A i \in 1..Len(list) : list[i].downloadable <=> list[i].pdfUrl # ""

\* the handler has answered after the registry answered its request with a
\* status that is not a success
RegistryRefused ==
    /\ handler \in RegistryHandlers
    /\ Done
    /\ calls # <<>>
    /\ calls[1].result.kind = "http"

\* C17: when the registry answers with a non-success status the handler
\* makes no further request and its response carries the upstream status
\* and the upstream body.
C17_RegistryError ==
    RegistryRefused =>
        /\ Len(calls) = 1
        /\ responses[1].status = calls[1].result.status
        /\ responses[1].details = calls[1].result.body

\* C18: a registry handler whose key is not configured makes no request to
\* the registry, and answers a request that names a company with 500.
C18_MissingCredentials ==
    (handler \in RegistryHandlers /\ ~KeySet(handler, env)) =>
        /\ calls = <<>>
        /\ (Done /\ event.query = "given") => responses[1].status = 500

----------------------------------------------------------------------------
(* Claims about the dry run and about extraction failures, checked under   *)
(* Spec.                                                                   *)

\* the file-based handler ran its loop over every file without answering
PassedFileValidation ==
    /\ FilesRequest
    /\ Files # <<>>
    /\ pc \in {"done", "inflight"}
    /\ idx > Len(Files)

SheetFailure ==
    /\ FilesRequest
    /\ Done
    /\ idx <= Len(Files)
    /\ ~Files[idx].isNull
    /\ MimeOf(handler, Files[idx]) \in XLS
    /\ Files[idx].content # "ok"
    /\ ~MissingBase64(handler, Files[idx].base64)
    /\ ~OverCeiling(totalBytes)

\* a trial-balance upload whose body was read and lacks a required file
FileAbsent ==
    /\ handler \in TbHandlers
    /\ Done
    /\ event.httpMethod = "POST"
    /\ ~MultipartyFails(event)
    /\ event.input # "file"

\* C20: a spreadsheet without a sheet, or with an empty or unreadable first
\* sheet, fails with an error naming the file and never yields a mapping;
\* an absent required file is answered 400.
C20_ExtractionFailure ==
    /\ SheetFailure =>
          /\ Response.status >= 400
          /\ Response.file = NameOf(Files[idx])
    /\ (handler \in TbParsers /\ Done) => event.sheet # <<>>
    /\ FileAbsent => Response.status = 400

----------------------------------------------------------------------------
(* Claims about the extractors, the attachment dispatch and the column     *)
(* choices, checked under Spec.                                            *)

\* the account names of the data rows that carry a numeric amount
AmountNames(p, sheet) ==
    { RowName(CellAt(sheet[r], NameIdx(p, sheet))) :
        r \in { q \in 2..Len(sheet) :
                  /\ RowName(CellAt(sheet[q], NameIdx(p, sheet))) # <<>>
                  /\ ~RowAmount(p, CellAt(sheet[q], AmtIdx(p, sheet))).nan } }

\* the mapping as a function of the parser and the sheet alone
MappingOf(p, sheet) ==
    [n \in AmountNames(p, sheet) |-> SumOfName(p, sheet, n, Len(sheet))]

\* C21: the mapping parseCSV and parseXLSX return is a function of the
\* parser the file name selects and of the content of the file: every run
\* on the same input returns the same mapping.
C21_Deterministic ==
    (handler \in {"parseCSV", "parseXLSX"} /\ Done) =>
        /\ DOMAIN result = AmountNames(handler, event.sheet)
        /\ \A n \in DOMAIN result : result[n] = MappingOf(handler, event.sheet)[n]

C21_Witness ==
    /\ handler = "parseXLSX"
    /\ Done
    /\ Len(event.sheet) = 3
    /\ Cardinality(DOMAIN result) = 2

\* the file the handler stopped at was fit to be dispatched: it has a
\* payload, is within the size ceiling and its content can be read
StoppedAtReadableFile ==
    /\ Done
    /\ idx <= Len(Files)
    /\ ~Files[idx].isNull
    /\ ~MissingBase64(handler, Files[idx].base64)
    /\ ~OverCeiling(totalBytes)
    /\ Files[idx].content = "ok"

\* C22: each attachment adds exactly one part chosen by its effective MIME
\* type (the declared type, or the guess from the name when none is
\* declared): an inline-data part of that type for PDF, PNG and JPEG, a text
\* part labelled with the file name for the spreadsheet and the text types;
\* only a file of another type fails the request.
C22_Dispatch ==
    (FilesRequest /\ parts # <<>>) =>
        /\ Len(parts) - 1 = AttachmentsBefore(idx)
        /\ \A n \in 2..Len(parts) :
              LET f == Files[AttachmentIndex(n - 1)]
                  mime == MimeOf(handler, f)
              IN  /\ mime \in {PDF} \cup IMG \cup XLS \cup TXT
                  /\ mime \in {PDF} \cup IMG =>
                        parts[n].kind = "inlineData" /\ parts[n].mimeType = mime
                  /\ mime \in XLS \cup TXT =>
                        parts[n].kind = "text" /\ parts[n].name = NameOf(f)
        /\ StoppedAtReadableFile =>
              MimeOf(handler, Files[idx]) \notin {PDF} \cup IMG \cup XLS \cup TXT

\* the columns parseXLSX scores: those after the name column among the
\* first five of the sheet
ScoredColumns(sheet) ==
    { c \in 1..4 : c < Len(sheet[1]) }

\* C23: the amount column of parseXLSX is a column of the sheet; it is one
\* of the scored columns, none of them has more numeric or numeric-like
\* cells over the data rows, and every scored column before it has fewer.
C23_AmountColumn ==
    (handler = "parseXLSX" /\ event.sheet # <<>>) =>
        LET sheet == event.sheet
            a == AmtIdx(handler, sheet)
        IN  /\ a < Len(sheet[1])
            /\ a \in ScoredColumns(sheet)
            /\ \A c \in ScoredColumns(sheet) :
                  /\ XlsxScore(sheet, c) <= XlsxScore(sheet, a)
                  /\ c < a => XlsxScore(sheet, c) < XlsxScore(sheet, a)

\* the positions of the headers that match amount|debit|credit|balance
\* once lower-cased
AmountHeaders(sheet) ==
    { i \in 1..Len(sheet[1]) :
        ContainsAny(LowerStr(HeaderText(sheet[1][i])), {W_amount, W_debit, W_credit, W_balance}) }

\* C24: the amount column of parseCSV is the first column whose header
\* matches amount|debit|credit|balance in any case, column 1 when no header
\* matches; the name column is column 0 and the amount column is never the
\* name column.
C24_CsvColumns ==
    (handler = "parseCSV" /\ event.sheet # <<>>) =>
        LET sheet == event.sheet
            a == AmtIdx(handler, sheet)
        IN  /\ AmountHeaders(sheet) # {} =>
                  /\ a + 1 \in AmountHeaders(sheet)
                  /\ \A i \in AmountHeaders(sheet) : a + 1 <= i
            /\ AmountHeaders(sheet) = {} => a = 1
            /\ NameIdx(handler, sheet) = 0
            /\ a # NameIdx(handler, sheet)

----------------------------------------------------------------------------
(* Claims about document resolution and the registry handlers' endings,    *)
(* checked under RegistrySpec.                                             *)

\* the positions in calls of the metadata requests, and the n-th of them
MetaCalls == { i \in 1..Len(calls) : calls[i].api = "document" }
MetaCall(n) ==
    CHOOSE i \in MetaCalls : Cardinality({ j \in MetaCalls : j < i }) = n - 1

\* the positions in result of the filings that have a document id, and the
\* n-th of them
Resolved == { i \in 1..Len(result) : result[i].documentId # "" }
ResolvedEntry(n) ==
    result[CHOOSE i \in Resolved : Cardinality({ j \in Resolved : j < i }) = n - 1]

\* the content request that followed the n-th metadata request was answered
\* 302 with a Location header
Redirected(n) ==
    LET i == MetaCall(n) + 1 IN
    /\ i <= Len(calls)
    /\ calls[i].api = "content"
    /\ calls[i].result.status = 302
    /\ calls[i].result.location # ""

\* the content request follows a metadata request that succeeded and
\* reported a PDF, and nothing is requested from the redirect target
ContentAfterMetadata ==
    \A i \in 1..Len(calls) :
        /\ calls[i].api \in {"registry", "document", "content"}
        /\ calls[i].api = "content" =>
              /\ i > 1
              /\ calls[i - 1].api = "document"
              /\ calls[i - 1].result.kind = "ok"
              /\ calls[i - 1].result.json
              /\ calls[i - 1].result.hasPdf
        /\ (calls[i].api = "content" /\ i < Len(calls)) => calls[i + 1].api = "document"

\* getPdfUrl returned the Location of a 302, and null otherwise
UrlOnlyFromRedirect ==
    \A n \in 1..Cardinality(Resolved) :
        /\ ResolvedEntry(n).pdfUrl # "" <=> Redirected(n)
        /\ Redirected(n) => ResolvedEntry(n).pdfUrl = calls[MetaCall(n) + 1].result.location

----------------------------------------------------------------------------
(* The reference document of processUpload.js: the startup preload writes  *)
(* ifrsSummary while invocations of the handler are served; an invocation  *)
(* reads it once, in getIFRSSection, between the filings loop and the      *)
(* OpenAI call.                                                            *)

\* invocations the process serves at the same time
MaxRequests == 2

\* the text pdf-parse extracts from the reference document
ReferenceTexts == { <<>>, <<"x", "T", "a", "x">>, <<"I", "A", "S">> }

\* "General Accounting Analysis"
DefaultTopic ==
    <<"G", "e", "n", "e", "r", "a", "l", " ", "A", "c", "c", "o", "u", "n", "t", "i", "n", "g",
      " ", "A", "n", "a", "l", "y", "s", "i", "s">>

\* the topic field of the form: absent, empty or given
TopicFields ==
    { [given |-> FALSE, value |-> <<>>], [given |-> TRUE, value |-> <<>>],
      [given |-> TRUE, value |-> <<"T", "a">>], [given |-> TRUE, value |-> <<"v", "a", "t">>] }
TopicOf(field) == IF field.given THEN field.value ELSE DefaultTopic

\* String.prototype.indexOf, 0-based, -1 when the word does not occur
indexOf(s, w) ==
    LET hits == { i \in 0..(Len(s) - Len(w)) : SubSeq(s, i + 1, i + Len(w)) = w } IN
    IF hits = {} THEN -1 ELSE CHOOSE i \in hits : \A j \in hits : i <= j

\* String.prototype.slice(a, b) for 0 <= a
StrSlice(s, a, b) == SubSeq(s, a + 1, IF b < Len(s) THEN b ELSE Len(s))

getIFRSSection_Topic(summary, topic) == IF summary = <<>> THEN topic ELSE summary
getIFRSSection(summary, topic) ==
    IF summary = <<>> \/ topic = <<>> THEN <<>>
    ELSE LET i == indexOf(LowerStr(summary), LowerStr(topic)) IN
         IF i = -1 THEN StrSlice(summary, 0, 2000)
         ELSE StrSlice(summary, IF i - 1000 > 0 THEN i - 1000 ELSE 0, i + 3000)

\* the events of the invocations: multipart forms, with or without filings
PreloadEvents ==
    { e \in UploadEvents : /\ e.contentType = "multipart" /\ ~e.isBase64Encoded /\ e.hasText
                           /\ e.bodyOk /\ e.input \in {"none", "url"} }

\* whether the invocation gets past the filings loop with some text
ReachesReference(ev, en, fetchOk) ==
    /\ ev.httpMethod = "POST"
    /\ ~MultipartyFails(ev)
    /\ ev.input = "url"
    /\ en.COMPANIES_HOUSE_API_KEY
    /\ fetchOk /\ ev.docOk

NewRequest ==
    [pc |-> "idle", event |-> <<>>, topic |-> <<>>, section |-> <<>>, readAt |-> "none",
     calls |-> <<>>, responses |-> <<>>]

\* fs.readFileSync at module load: the file is read, or the catch block logs
PreloadReads ==
    /\ preload = "start"
    /\ preload' \in {"parsing", "failed"}
    /\ UNCHANGED <<ifrsSummary, writes, requests, handler, pc, event, env, candidates, idx,
                   lastErr, calls, parts, echo, totalBytes, timer, bodyParsed, responses,
                   result>>

\* await pdfParse(pdfBuffer) settles: ifrsSummary = pdfData.text, or the
\* catch block logs
PreloadSettles ==
    /\ preload = "parsing"
    /\ \/ \E t \in ReferenceTexts :
            /\ ifrsSummary' = t
            /\ writes' = Append(writes, "preload")
            /\ preload' = "loaded"
       \/ /\ preload' = "failed"
          /\ UNCHANGED <<ifrsSummary, writes>>
    /\ UNCHANGED <<requests, handler, pc, event, env, candidates, idx, lastErr, calls, parts,
                   echo, totalBytes, timer, bodyParsed, responses, result>>

\* an invocation from the method check to the end of the filings loop
RequestArrives ==
    /\ preload # "start"
    /\ \E r \in DOMAIN requests, ev \in PreloadEvents, f \in TopicFields, fetchOk \in BOOLEAN :
        /\ requests[r].pc = "idle"
        /\ IF ReachesReference(ev, env, fetchOk)
           THEN requests' = [requests EXCEPT ![r].pc = "filings", ![r].event = ev,
                                             ![r].topic = TopicOf(f),
                                             ![r].calls = <<ExtCall("fetch", NoModel, "text")>>]
           ELSE LET res == UploadResult(handler, ev, env, fetchOk, TRUE) IN
                requests' = [requests EXCEPT ![r].pc = "done", ![r].event = ev,
                                             ![r].calls = res.calls,
                                             ![r].responses = <<res.resp>>]
    /\ UNCHANGED <<ifrsSummary, preload, writes, handler, pc, event, env, candidates, idx,
                   lastErr, calls, parts, echo, totalBytes, timer, bodyParsed, responses,
                   result>>

\* const ifrsSection = getIFRSSection(topic), then the debug answer or the
\* request to OpenAI
RequestReadsReference ==
    /\ \E r \in DOMAIN requests :
        LET q == requests[r]
            res == UploadResult(handler, q.event, env, TRUE, TRUE) IN
        /\ q.pc = "filings"
        /\ IF env.OPENAI_API_KEY
           THEN requests' = [requests EXCEPT ![r].pc = "inflight",
                                             ![r].section = getIFRSSection(ifrsSummary, q.topic),
                                             ![r].readAt = preload,
                                             ![r].calls = res.calls]
           ELSE requests' = [requests EXCEPT ![r].pc = "done",
                                             ![r].section = getIFRSSection(ifrsSummary, q.topic),
                                             ![r].readAt = preload,
                                             ![r].responses = <<res.resp>>]
    /\ UNCHANGED <<ifrsSummary, preload, writes, handler, pc, event, env, candidates, idx,
                   lastErr, calls, parts, echo, totalBytes, timer, bodyParsed, responses,
                   result>>

\* openai.chat.completions.create settles
RequestAnswered ==
    /\ \E r \in DOMAIN requests, aiOk \in BOOLEAN :
        /\ requests[r].pc = "inflight"
        /\ requests' = [requests EXCEPT
              ![r].pc = "done",
              ![r].responses = <<UploadResult(handler, requests[r].event, env, TRUE, aiOk).resp>>]
    /\ UNCHANGED <<ifrsSummary, preload, writes, handler, pc, event, env, candidates, idx,
                   lastErr, calls, parts, echo, totalBytes, timer, bodyParsed, responses,
                   result>>

PreloadInit ==
    /\ handler = "PU_OpenAI"
    /\ event = <<>>
    /\ env \in EnvsOf(handler)
    /\ pc = "init"
    /\ candidates = <<>>
    /\ idx = 1
    /\ lastErr = NoErr
    /\ calls = <<>>
    /\ parts = <<>>
    /\ echo = <<>>
    /\ totalBytes = 0
    /\ timer = "none"
    /\ bodyParsed = FALSE
    /\ responses = <<>>
    /\ result = <<>>
    /\ ifrsSummary = <<>>
    /\ preload = "start"
    /\ writes = <<>>
    /\ requests = [r \in 1..MaxRequests |-> NewRequest]

PreloadNext ==
    \/ PreloadReads
    \/ PreloadSettles
    \/ RequestArrives
    \/ RequestReadsReference
    \/ RequestAnswered

PreloadSpec == PreloadInit /\ [][PreloadNext]_vars

\* the invocations that have read the reference text
HaveRead == { r \in DOMAIN requests : requests[r].readAt # "none" }

\* the answers of an invocation that got past the filings loop
AnswersPastFilings(r) ==
    { UploadResult(handler, requests[r].event, env, TRUE, ok).resp : ok \in BOOLEAN }

\* the invocation went on to the debug answer or to OpenAI
Proceeded(r) ==
    LET q == requests[r] IN
    IF env.OPENAI_API_KEY
    THEN /\ q.pc \in {"inflight", "done"}
         /\ Len(q.calls) = 2 /\ q.calls[2].api = "openai"
         /\ q.pc = "done" => q.responses[1] \in AnswersPastFilings(r)
    ELSE q.pc = "done" /\ q.responses[1].status = 200

\* C26: ifrsSummary is assigned at most once and only by the startup
\* preload; an invocation that reads it while the preload is pending or
\* after the preload failed gets an empty reference section and goes on to
\* its answer; what an invocation reads depends on the preload and its own
\* topic only, never on the other invocations.
C26_Preload ==
    /\ Len(writes) <= 1
    /\ \A i \in DOMAIN writes : writes[i] = "preload"
    /\ preload # "loaded" => ifrsSummary = <<>> /\ writes = <<>>
    /\ \A r \in HaveRead :
        LET q == requests[r] IN
        /\ q.section = getIFRSSection(IF q.readAt = "loaded" THEN ifrsSummary ELSE <<>>, q.topic)
        /\ q.readAt \in {"parsing", "failed"} => q.section = <<>> /\ Proceeded(r)

C26_Witness ==
    /\ preload = "loaded"
    /\ \E r1, r2 \in DOMAIN requests :
        /\ requests[r1].readAt = "parsing"
        /\ requests[r1].pc = "done"
        /\ requests[r1].responses[1].status = 200
        /\ requests[r2].readAt = "loaded"
        /\ requests[r2].section # <<>>

----------------------------------------------------------------------------
(* Claims about the order of the calls and the checks that precede them *)

\* the identifiers sent to the generative API so far, in order
Sent == [i \in 1..Len(GenCalls) |-> GenCalls[i].model]

\* the calls follow the candidate list, one candidate after the other
InListOrder ==
    /\ Len(Sent) <= Len(candidates)
    /\ \A i \in 1..Len(Sent) : Sent[i] = candidates[i]

\* C27: in the fallback variants the candidates are tried in list order, no
\* model identifier is sent twice, and the number of generation calls is at
\* most the number of distinct identifiers.
C27_InOrderOnce ==
    handler \in FallbackHandlers =>
        /\ InListOrder
        /\ \A i, j \in 1..Len(Sent) : i # j => Sent[i] # Sent[j]
        /\ Len(Sent) <= Cardinality({ candidates[i] : i \in 1..Len(candidates) })

\* the body passed the validation of the variant that serves the request
BodyAccepted ==
    /\ event.body.kind = "object"
    /\ IF handler \in FileHandlers
       THEN Files # <<>> /\ idx > Len(Files)
       ELSE /\ event.body.priorText
            /\ event.body.tbParsed \in (IF handler = "GS_ListA" THEN {"both"}
                                        ELSE {"current", "both"})

\* C28: the generative API (generation or model listing) is called only
\* after the method check, the credential check and the body validation
\* have passed, and a request answered 400 or 405 has caused no call.
C28_ChecksFirst ==
    handler \in GenHandlers =>
        /\ calls # <<>> =>
              /\ event.httpMethod = "POST"
              /\ env.GEMINI_API_KEY
              /\ bodyParsed
              /\ BodyAccepted
        /\ (Done /\ Response.status \in {400, 405}) => calls = <<>>

C28_Witness ==
    /\ handler \in FileHandlers
    /\ Done
    /\ Response.status = 400
    /\ env.GEMINI_API_KEY
    /\ idx = 2
    /\ Len(parts) = 2
    /\ calls = <<>>

\* C29: a registry handler never throws, every invocation that ended
\* returned one response with a status code, and an event without
\* query-string parameters is answered with the variant's 400.
C29_AlwaysAnswers ==
    handler \in RegistryHandlers =>
        /\ pc # "threw"
        /\ Done => Len(responses) = 1 /\ responses[1].status \in 100..599
        /\ (Done /\ event.query = "none") =>
              /\ responses[1].status = 400
              /\ responses[1].error = MissingQueryError(handler)

----------------------------------------------------------------------------
(* Claims about the model the list-then-pick variants use *)

\* the listing has been received and parsed
Listed ==
    /\ handler \in ListPickHandlers
    /\ calls # <<>>
    /\ calls[1].api = "listModels"
    /\ calls[1].result.kind = "list"

\* the entries of the listing that have an identifier, in listing order
ListedModels == listModels(calls[1].result)

\* the identifiers of the listed models whose methods name generateContent
Supporting ==
    { ListedModels[i].id : i \in { k \in 1..Len(ListedModels) :
          /\ ListedModels[k].raw.isArray
          /\ "generateContent" \in ListedModels[k].raw.methods } }

\* the earliest entry of the preferred order among the identifiers, or else
\* the first of them in listing order
PickFrom(ids) ==
    LET pref == preferredOrder(handler)
        hits == { i \in 1..Len(pref) : pref[i] \in ids }
        at == { i \in 1..Len(ListedModels) : ListedModels[i].id \in ids }
    IN  IF hits # {} THEN pref[CHOOSE i \in hits : \A j \in hits : i <= j]
        ELSE ListedModels[CHOOSE i \in at : \A j \in at : i <= j].id

\* C30: the list-then-pick variants use a listed model that supports
\* generateContent, the earliest usable entry of the preferred order or else
\* the first usable model of the listing; they make exactly one generation
\* call, and none, with a 500 answer, when no listed model is usable.
C30_PickUsable ==
    Listed =>
        /\ Len(GenCalls) <= 1
        /\ Supporting # {} =>
              /\ pc # "listing" => Len(GenCalls) = 1
              /\ GenCalls # <<>> => GenCalls[1].model = PickFrom(Supporting)
        /\ Supporting = {} =>
              /\ GenCalls = <<>>
              /\ pc # "listing" => Done /\ Response.status = 500

====
